---- MODULE Spec2Model ----
(***************************************************************************)
(* A model of the scrape engine of postgres_exporter                       *)
(* (src/cmd/postgres_exporter/main.go, the Exporter and its helpers).      *)
(*                                                                         *)
(* Driver values are records [t, i, s]: t is the Go dynamic type, i the    *)
(* integer payload, s the text payload.  float64 results are records       *)
(* [nan, x] with x in hundredths.  Semantic versions are triples.          *)
(***************************************************************************)
EXTENDS Integers, Sequences, FiniteSets, TLC

(***************************************************************************)
(* Bounds of the model.                                                    *)
(***************************************************************************)
\* Collect invocations explored (caps the totalScrapes counter).
MaxScrapes == 2

(***************************************************************************)
(* Semantic versions (github.com/blang/semver as used by the source).      *)
(***************************************************************************)
ZeroVersion == <<0, 0, 0>>

VersionLT(a, b) ==
    \/ a[1] < b[1]
    \/ a[1] = b[1] /\ a[2] < b[2]
    \/ a[1] = b[1] /\ a[2] = b[2] /\ a[3] < b[3]

VersionGE(a, b) == ~VersionLT(a, b)

\* semver.Version.String()
VersionString(v) == ToString(v[1]) \o "." \o ToString(v[2]) \o "." \o ToString(v[3])

\* The semver.Range predicates the catalog is written with; "nil" is the
\* absent range of a ColumnMapping.
RangeAccepts(r, v) ==
    CASE r = ">0.0.0"          -> VersionLT(<<0, 0, 0>>, v)
      [] r = "<9.2.0"          -> VersionLT(v, <<9, 2, 0>>)
      [] r = ">=9.2.0"         -> VersionGE(v, <<9, 2, 0>>)
      [] r = "<10.0.0"         -> VersionLT(v, <<10, 0, 0>>)
      [] r = ">=10.0.0"        -> VersionGE(v, <<10, 0, 0>>)
      [] r = ">=9.2.0 <10.0.0" -> VersionGE(v, <<9, 2, 0>>) /\ VersionLT(v, <<10, 0, 0>>)
      [] OTHER                 -> FALSE

(***************************************************************************)
(* The version banner.  A banner is the text SELECT version() returns; its *)
(* shape under versionRegex is its leading word and the dotted numbers     *)
(* that follow the single space after it.                                  *)
(***************************************************************************)
Banners == {"PostgreSQL 9.6.2 on x86_64", "PostgreSQL 10.0", "EnterpriseDB 0", "9.6.2 PostgreSQL"}

BannerShape(b) ==
    CASE b = "PostgreSQL 9.6.2 on x86_64" -> [word |-> "PostgreSQL", nums |-> <<9, 6, 2>>]
      [] b = "PostgreSQL 10.0"          -> [word |-> "PostgreSQL", nums |-> <<10, 0>>]
      [] b = "EnterpriseDB 0"           -> [word |-> "EnterpriseDB", nums |-> <<0>>]
      [] b = "9.6.2 PostgreSQL"         -> [word |-> "", nums |-> <<>>]
      [] b = "PostgreSQL 11"            -> [word |-> "PostgreSQL", nums |-> <<11>>]
      [] b = "PostgreSQL 9.6.2.1"       -> [word |-> "PostgreSQL", nums |-> <<9, 6, 2>>]
      [] b = "PostgreSQL 10beta1"       -> [word |-> "PostgreSQL", nums |-> <<10>>]
      [] b = "psql_13 12.4 (Debian 12.4-1)" -> [word |-> "psql_13", nums |-> <<12, 4>>]
      [] b = "PostgreSQL beta"          -> [word |-> "", nums |-> <<>>]
      [] b = "PostgreSQL"               -> [word |-> "", nums |-> <<>>]
      [] b = ""                         -> [word |-> "", nums |-> <<>>]
      [] OTHER                          -> [word |-> "", nums |-> <<>>]

parseVersion_NoPad(versionString) ==
    LET sh == BannerShape(versionString)
        n  == sh.nums
    IN  IF sh.word # "" /\ Len(n) >= 3
        THEN [err |-> FALSE, v |-> << n[1], n[2], n[3] >>]
        ELSE [err |-> TRUE, v |-> ZeroVersion]

\* parseVersion: the first major(.minor)?(.patch)? token after the leading
\* word, missing components read as 0 (semver.ParseTolerant).
parseVersion(versionString) ==
    LET sh == BannerShape(versionString)
        n  == sh.nums
    IN  IF sh.word # "" /\ Len(n) >= 1
        THEN [err |-> FALSE,
              v   |-> << n[1],
                         IF Len(n) >= 2 THEN n[2] ELSE 0,
                         IF Len(n) >= 3 THEN n[3] ELSE 0 >>]
        ELSE [err |-> TRUE, v |-> ZeroVersion]

(***************************************************************************)
(* The catalog: the part of builtinMetricMaps and queryOverrides the model *)
(* carries.  A ColumnMapping is [usage, mapping, supportedVersions].       *)
(***************************************************************************)
CM(usage, range) == [usage |-> usage, mapping |-> <<>>, supportedVersions |-> range]

builtinMetricMaps ==
    [ns \in {"pg_stat_database", "pg_stat_replication", "pg_stat_activity"} |->
        CASE ns = "pg_stat_database" ->
                 [c \in {"datname", "xact_commit"} |->
                     IF c = "datname" THEN CM("LABEL", "nil") ELSE CM("COUNTER", "nil")]
          [] ns = "pg_stat_replication" ->
                 [c \in {"state", "pg_xlog_location_diff", "pg_wal_lsn_diff"} |->
                     CASE c = "state"                 -> CM("LABEL", "nil")
                       [] c = "pg_xlog_location_diff" -> CM("GAUGE", ">=9.2.0 <10.0.0")
                       [] c = "pg_wal_lsn_diff"       -> CM("GAUGE", ">=10.0.0")]
          [] ns = "pg_stat_activity" ->
                 [c \in {"datname", "state", "count"} |->
                     CASE c = "datname" -> CM("LABEL", "nil")
                       [] c = "state"   -> CM("LABEL", ">=9.2.0")
                       [] c = "count"   -> CM("GAUGE", "nil")]]

OQ(range, query) == [versionRange |-> range, query |-> query]

queryOverrides ==
    [ns \in {"pg_stat_replication", "pg_stat_activity"} |->
        IF ns = "pg_stat_replication"
        THEN << OQ(">=10.0.0", "Q_replication_10"),
                OQ(">=9.2.0 <10.0.0", "Q_replication_92"),
                OQ("<9.2.0", "Q_replication_91") >>
        ELSE << OQ(">=9.2.0", "Q_activity_92") >>]

FirstMatch_Unchecked(overrideDef, pgVersion) == IF Len(overrideDef) = 0 THEN 0 ELSE 1

\* The first candidate (in declaration order) whose range accepts pgVersion,
\* 0 when none does: the inner loop of makeQueryOverrideMap with its break.
FirstMatch(overrideDef, pgVersion) ==
    LET hits == {i \in 1..Len(overrideDef) : RangeAccepts(overrideDef[i].versionRange, pgVersion)}
    IN  IF hits = {} THEN 0 ELSE CHOOSE i \in hits : \A j \in hits : i <= j

makeQueryOverrideMap(pgVersion, overrides) ==
    [name \in DOMAIN overrides |->
        LET i == FirstMatch(overrides[name], pgVersion)
        IN  IF i = 0 THEN "" ELSE overrides[name][i].query]

(***************************************************************************)
(* makeDescMap.  The label list of a namespace is built by ranging over a  *)
(* Go map, so its order is any permutation of the LABEL columns; the       *)
(* operator yields the set of maps one call may return.                    *)
(***************************************************************************)
Perms(S) == {q \in [1..Cardinality(S) -> S] : \A i, j \in 1..Cardinality(S) : i # j => q[i] # q[j]}

NilDesc == [fqName |-> "", variableLabels |-> <<>>]

NewDesc(fqName, variableLabels) == [fqName |-> fqName, variableLabels |-> variableLabels]

\* The conversion closure of a compiled column: its kind and the mapping
\* table it captured.
Conv(kind, mapping) == [kind |-> kind, mapping |-> mapping]

DiscardMap == [discard |-> TRUE, vtype |-> "", desc |-> NilDesc, conversion |-> Conv("nan", <<>>)]

compileColumn_IgnoreVersion(namespace, columnName, columnMapping, constLabels, pgVersion) ==
    CASE columnMapping.usage \in {"DISCARD", "LABEL"} -> DiscardMap
      [] columnMapping.usage = "COUNTER" ->
           [discard |-> FALSE, vtype |-> "Counter",
            desc |-> NewDesc(namespace \o "_" \o columnName, constLabels),
            conversion |-> Conv("float", <<>>)]
      [] columnMapping.usage = "GAUGE" ->
           [discard |-> FALSE, vtype |-> "Gauge",
            desc |-> NewDesc(namespace \o "_" \o columnName, constLabels),
            conversion |-> Conv("float", <<>>)]
      [] columnMapping.usage = "MAPPEDMETRIC" ->
           [discard |-> FALSE, vtype |-> "Gauge",
            desc |-> NewDesc(namespace \o "_" \o columnName, constLabels),
            conversion |-> Conv("mapped", columnMapping.mapping)]
      [] columnMapping.usage = "DURATION" ->
           [discard |-> FALSE, vtype |-> "Gauge",
            desc |-> NewDesc(namespace \o "_" \o columnName \o "_milliseconds", constLabels),
            conversion |-> Conv("duration", <<>>)]

compileColumn(namespace, columnName, columnMapping, constLabels, pgVersion) ==
    IF columnMapping.supportedVersions # "nil"
       /\ ~RangeAccepts(columnMapping.supportedVersions, pgVersion)
    THEN DiscardMap
    ELSE CASE columnMapping.usage \in {"DISCARD", "LABEL"} -> DiscardMap
           [] columnMapping.usage = "COUNTER" ->
                [discard |-> FALSE, vtype |-> "Counter",
                 desc |-> NewDesc(namespace \o "_" \o columnName, constLabels),
                 conversion |-> Conv("float", <<>>)]
           [] columnMapping.usage = "GAUGE" ->
                [discard |-> FALSE, vtype |-> "Gauge",
                 desc |-> NewDesc(namespace \o "_" \o columnName, constLabels),
                 conversion |-> Conv("float", <<>>)]
           [] columnMapping.usage = "MAPPEDMETRIC" ->
                [discard |-> FALSE, vtype |-> "Gauge",
                 desc |-> NewDesc(namespace \o "_" \o columnName, constLabels),
                 conversion |-> Conv("mapped", columnMapping.mapping)]
           [] columnMapping.usage = "DURATION" ->
                [discard |-> FALSE, vtype |-> "Gauge",
                 desc |-> NewDesc(namespace \o "_" \o columnName \o "_milliseconds", constLabels),
                 conversion |-> Conv("duration", <<>>)]

LabelColumns(mappings) == {c \in DOMAIN mappings : mappings[c].usage = "LABEL"}

makeDescNamespace(namespace, mappings, constLabels, pgVersion) ==
    [labels |-> constLabels,
     columnMappings |->
        [c \in DOMAIN mappings |-> compileColumn(namespace, c, mappings[c], constLabels, pgVersion)]]

makeDescMap(pgVersion, metricMaps) ==
    { [ns \in DOMAIN metricMaps |->
          makeDescNamespace(ns, metricMaps[ns], order[ns], pgVersion)] :
      order \in { o \in [DOMAIN metricMaps -> UNION {Perms(LabelColumns(metricMaps[n])) : n \in DOMAIN metricMaps}] :
                    \A n \in DOMAIN metricMaps : o[n] \in Perms(LabelColumns(metricMaps[n])) } }

(***************************************************************************)
(* User query documents (the file at userQueriesPath) and addQueries.      *)
(* A document is [hashsum, readable, yamlOk, extra]; extra maps a          *)
(* namespace to [isMapping, hasQuery, queryIsString, query, metrics],      *)
(* metrics being the list of [name, usage] the YAML declares.              *)
(***************************************************************************)
NsSpec(isMapping, hasQuery, queryIsString, query, metrics) ==
    [isMapping |-> isMapping, hasQuery |-> hasQuery, queryIsString |-> queryIsString,
     query |-> query, metrics |-> metrics]

Col(name, usage) == [name |-> name, usage |-> usage]

DocUnreadable == [hashsum |-> "", readable |-> FALSE, yamlOk |-> FALSE, extra |-> <<>>]

DocBadYaml == [hashsum |-> "h_badyaml", readable |-> TRUE, yamlOk |-> FALSE, extra |-> <<>>]

DocOk ==
    [hashsum |-> "h_ok", readable |-> TRUE, yamlOk |-> TRUE,
     extra |-> [ns \in {"pg_stat_database"} |->
                  NsSpec(TRUE, TRUE, TRUE, "Q_user_database",
                         << Col("datname", "LABEL"), Col("tup_fetched", "COUNTER") >>)]]

DocBogus ==
    [hashsum |-> "h_bogus", readable |-> TRUE, yamlOk |-> TRUE,
     extra |-> [ns \in {"pg_stat_database"} |->
                  NsSpec(TRUE, TRUE, TRUE, "Q_user_database",
                         << Col("datname", "LABEL"), Col("tup_fetched", "BOGUS") >>)]]

DocMalformed ==
    [hashsum |-> "h_malformed", readable |-> TRUE, yamlOk |-> TRUE,
     extra |-> [ns \in {"pg_stat_database"} |-> NsSpec(FALSE, FALSE, FALSE, "", <<>>)]]

UserDocs == {DocUnreadable, DocBadYaml, DocOk, DocBogus, DocMalformed}

ColumnUsages == {"DISCARD", "LABEL", "COUNTER", "GAUGE", "MAPPEDMETRIC", "DURATION"}

\* stringToColumnUsage: an error for every text that is not a usage name.
stringToColumnUsage(s) == [err |-> s \notin ColumnUsages, u |-> IF s \in ColumnUsages THEN s ELSE "DISCARD"]

\* The type assertions of addQueries' loop that fail on this namespace entry.
AssertionPanics(spec) == ~spec.isMapping \/ (spec.hasQuery /\ ~spec.queryIsString)

UsageErrors(spec) ==
    spec.isMapping /\ \E i \in 1..Len(spec.metrics) : stringToColumnUsage(spec.metrics[i].usage).err

\* The column mappings a namespace entry declares: a later entry of the
\* list replaces an earlier one of the same name.
UserColumns(spec) ==
    [c \in {spec.metrics[i].name : i \in 1..Len(spec.metrics)} |->
        LET last == CHOOSE i \in 1..Len(spec.metrics) :
                        /\ spec.metrics[i].name = c
                        /\ \A j \in 1..Len(spec.metrics) : spec.metrics[j].name = c => j <= i
        IN  CM(stringToColumnUsage(spec.metrics[last].usage).u, "nil")]

MergeMaps_KeepExisting(base, over) ==
    [k \in (DOMAIN base) \cup (DOMAIN over) |-> IF k \in DOMAIN base THEN base[k] ELSE over[k]]

MergeMaps(base, over) ==
    [k \in (DOMAIN base) \cup (DOMAIN over) |-> IF k \in DOMAIN over THEN over[k] ELSE base[k]]

addQueries_MergeAsRead(content, pgVersion, exporterMap, queryOverrideMap) ==
    IF ~content.yamlOk
    THEN {[outcome |-> "err", exporterMap |-> exporterMap, queryOverrideMap |-> queryOverrideMap]}
    ELSE LET extra      == content.extra
             panics     == \E n \in DOMAIN extra : AssertionPanics(extra[n])
             errs       == \E n \in DOMAIN extra : UsageErrors(extra[n])
             metricMaps == [n \in {k \in DOMAIN extra : Len(extra[k].metrics) > 0} |->
                               UserColumns(extra[n])]
             newQueryOverrides ==
                           [n \in {k \in DOMAIN extra : extra[k].hasQuery} |-> extra[n].query]
         IN  IF panics \/ errs
             THEN {[outcome |-> o, exporterMap |-> exporterMap,
                    queryOverrideMap |-> MergeMaps(queryOverrideMap, newQueryOverrides)] :
                      o \in {x \in {"panic", "err"} : (x = "panic" /\ panics) \/ (x = "err" /\ errs)}}
             ELSE {[outcome |-> "ok",
                    exporterMap |-> MergeMaps(exporterMap, partialExporterMap),
                    queryOverrideMap |-> MergeMaps(queryOverrideMap, newQueryOverrides)] :
                      partialExporterMap \in makeDescMap(pgVersion, metricMaps)}

addQueries_DropQueries(content, pgVersion, exporterMap, queryOverrideMap) ==
    IF ~content.yamlOk
    THEN {[outcome |-> "err", exporterMap |-> exporterMap, queryOverrideMap |-> queryOverrideMap]}
    ELSE LET extra      == content.extra
             panics     == \E n \in DOMAIN extra : AssertionPanics(extra[n])
             errs       == \E n \in DOMAIN extra : UsageErrors(extra[n])
             metricMaps == [n \in {k \in DOMAIN extra : Len(extra[k].metrics) > 0} |->
                               UserColumns(extra[n])]
         IN  IF panics \/ errs
             THEN {[outcome |-> o, exporterMap |-> exporterMap, queryOverrideMap |-> queryOverrideMap] :
                      o \in {x \in {"panic", "err"} : (x = "panic" /\ panics) \/ (x = "err" /\ errs)}}
             ELSE {[outcome |-> "ok",
                    exporterMap |-> MergeMaps(exporterMap, partialExporterMap),
                    queryOverrideMap |-> queryOverrideMap] :
                      partialExporterMap \in makeDescMap(pgVersion, metricMaps)}

\* addQueries: the set of results one call may have.  The loop ranges over
\* a Go map, so a document with several defects fails on whichever namespace
\* comes first.  Nothing is merged before the loop has ended.
addQueries(content, pgVersion, exporterMap, queryOverrideMap) ==
    IF ~content.yamlOk
    THEN {[outcome |-> "err", exporterMap |-> exporterMap, queryOverrideMap |-> queryOverrideMap]}
    ELSE LET extra      == content.extra
             panics     == \E n \in DOMAIN extra : AssertionPanics(extra[n])
             errs       == \E n \in DOMAIN extra : UsageErrors(extra[n])
             metricMaps == [n \in {k \in DOMAIN extra : Len(extra[k].metrics) > 0} |->
                               UserColumns(extra[n])]
             newQueryOverrides ==
                           [n \in {k \in DOMAIN extra : extra[k].hasQuery} |-> extra[n].query]
         IN  IF panics \/ errs
             THEN {[outcome |-> o, exporterMap |-> exporterMap, queryOverrideMap |-> queryOverrideMap] :
                      o \in {x \in {"panic", "err"} : (x = "panic" /\ panics) \/ (x = "err" /\ errs)}}
             ELSE {[outcome |-> "ok",
                    exporterMap |-> MergeMaps(exporterMap, partialExporterMap),
                    queryOverrideMap |-> MergeMaps(queryOverrideMap, newQueryOverrides)] :
                      partialExporterMap \in makeDescMap(pgVersion, metricMaps)}

(***************************************************************************)
(* Driver values and their coercions.                                      *)
(***************************************************************************)
Int64(n)   == [t |-> "int64",   i |-> n, s |-> ""]
Float64(h) == [t |-> "float64", i |-> h, s |-> ""]
Time(sec)  == [t |-> "time",    i |-> sec, s |-> ""]
Bytes(txt) == [t |-> "bytes",   i |-> 0, s |-> txt]
Str(txt)   == [t |-> "string",  i |-> 0, s |-> txt]
Null       == [t |-> "nil",     i |-> 0, s |-> ""]
Bool       == [t |-> "bool",    i |-> 1, s |-> ""]

NaN  == [nan |-> TRUE, x |-> 0]
F(h) == [nan |-> FALSE, x |-> h]

\* strconv.ParseFloat on the texts the model's results carry (hundredths).
ParseFloat(txt) ==
    CASE txt = "5"    -> [err |-> FALSE, f |-> F(500)]
      [] txt = "3.14" -> [err |-> FALSE, f |-> F(314)]
      [] txt = "-1"   -> [err |-> FALSE, f |-> F(-100)]
      [] OTHER        -> [err |-> TRUE, f |-> F(0)]

dbToFloat64_NullFails(t) ==
    CASE t.t = "int64"   -> [f |-> F(100 * t.i), ok |-> TRUE]
      [] t.t = "float64" -> [f |-> F(t.i), ok |-> TRUE]
      [] t.t = "time"    -> [f |-> F(100 * t.i), ok |-> TRUE]
      [] t.t \in {"bytes", "string"} ->
            IF ParseFloat(t.s).err THEN [f |-> NaN, ok |-> FALSE]
                                   ELSE [f |-> ParseFloat(t.s).f, ok |-> TRUE]
      [] OTHER           -> [f |-> NaN, ok |-> FALSE]

dbToFloat64(t) ==
    CASE t.t = "int64"   -> [f |-> F(100 * t.i), ok |-> TRUE]
      [] t.t = "float64" -> [f |-> F(t.i), ok |-> TRUE]
      [] t.t = "time"    -> [f |-> F(100 * t.i), ok |-> TRUE]
      [] t.t \in {"bytes", "string"} ->
            IF ParseFloat(t.s).err THEN [f |-> NaN, ok |-> FALSE]
                                   ELSE [f |-> ParseFloat(t.s).f, ok |-> TRUE]
      [] t.t = "nil"     -> [f |-> NaN, ok |-> TRUE]
      [] OTHER           -> [f |-> NaN, ok |-> FALSE]

\* time.ParseDuration on the texts the model's results carry; d is the
\* Duration in tenths of a millisecond (no text carries a finer part).
ParseDuration(txt) ==
    CASE txt = "1h"      -> [err |-> FALSE, d |-> 36000000]
      [] txt = "250ms"   -> [err |-> FALSE, d |-> 2500]
      [] txt = "1500us"  -> [err |-> FALSE, d |-> 15]
      [] txt = "-1500us" -> [err |-> FALSE, d |-> -15]
      [] OTHER           -> [err |-> TRUE, d |-> 0]

\* Go's integer division, which truncates toward zero.
GoDiv(a, b) == IF a >= 0 THEN a \div b ELSE -((-a) \div b)

\* d / time.Millisecond
Milliseconds(d) == GoDiv(d, 10)

Convert_SentinelParsed(conversion, in) ==
    CASE conversion.kind = "nan"   -> [f |-> NaN, ok |-> TRUE, logged |-> FALSE]
      [] conversion.kind = "float" -> [logged |-> FALSE] @@ dbToFloat64(in)
      [] conversion.kind = "mapped" ->
            IF in.t # "string" \/ in.s \notin DOMAIN conversion.mapping
            THEN [f |-> NaN, ok |-> FALSE, logged |-> FALSE]
            ELSE [f |-> conversion.mapping[in.s], ok |-> TRUE, logged |-> FALSE]
      [] conversion.kind = "duration" ->
            IF in.t \notin {"bytes", "string"} \/ ParseDuration(in.s).err
            THEN [f |-> NaN, ok |-> FALSE, logged |-> TRUE]
            ELSE [f |-> F(100 * Milliseconds(ParseDuration(in.s).d)), ok |-> TRUE,
                  logged |-> FALSE]

\* The conversion closures makeDescMap stores in a MetricMap: [f, ok], and
\* whether the closure logged an error.
Convert(conversion, in) ==
    CASE conversion.kind = "nan"   -> [f |-> NaN, ok |-> TRUE, logged |-> FALSE]
      [] conversion.kind = "float" -> [logged |-> FALSE] @@ dbToFloat64(in)
      [] conversion.kind = "mapped" ->
            IF in.t # "string" \/ in.s \notin DOMAIN conversion.mapping
            THEN [f |-> NaN, ok |-> FALSE, logged |-> FALSE]
            ELSE [f |-> conversion.mapping[in.s], ok |-> TRUE, logged |-> FALSE]
      [] conversion.kind = "duration" ->
            IF in.t \notin {"bytes", "string"}
            THEN [f |-> NaN, ok |-> FALSE, logged |-> TRUE]
            ELSE IF in.s = "-1"
                 THEN [f |-> NaN, ok |-> FALSE, logged |-> FALSE]
                 ELSE IF ParseDuration(in.s).err
                      THEN [f |-> NaN, ok |-> FALSE, logged |-> TRUE]
                      ELSE [f |-> F(100 * Milliseconds(ParseDuration(in.s).d)), ok |-> TRUE,
                            logged |-> FALSE]

\* fmt.Sprintf("%v", float64) on the floats the model's results carry.
FormatFloat(h) ==
    CASE h % 100 = 0 -> ToString(h \div 100)
      [] h % 100 # 0 /\ h % 10 = 0 -> ToString(h \div 100) \o "." \o ToString((h % 100) \div 10)
      [] OTHER -> ToString(h \div 100) \o "." \o (IF h % 100 < 10 THEN "0" ELSE "") \o ToString(h % 100)

dbToString(t) ==
    CASE t.t = "int64"   -> [str |-> ToString(t.i), ok |-> TRUE]
      [] t.t = "float64" -> [str |-> FormatFloat(t.i), ok |-> TRUE]
      [] t.t = "time"    -> [str |-> ToString(t.i), ok |-> TRUE]
      [] t.t = "nil"     -> [str |-> "", ok |-> TRUE]
      [] t.t \in {"bytes", "string"} -> [str |-> t.s, ok |-> TRUE]
      [] OTHER           -> [str |-> "", ok |-> FALSE]

(***************************************************************************)
(* Samples sent on the metric channel.  Every sample is a record           *)
(* [kind, ns, column, desc, vtype, value, labels]; kind and ns name the    *)
(* statement of the source that sent it.                                   *)
(***************************************************************************)
Sample(kind, ns, column, desc, vtype, value, labels) ==
    [kind |-> kind, ns |-> ns, column |-> column, desc |-> desc,
     vtype |-> vtype, value |-> value, labels |-> labels]

(***************************************************************************)
(* What the database answers to one namespace statement:                   *)
(* [err, columnNames, rows, scanFailAt]; err is "query" (db.Query fails),  *)
(* "columns" (rows.Columns fails) or "none"; scanFailAt is the row whose   *)
(* rows.Scan fails, 0 when every row scans.                                *)
(***************************************************************************)
Answer(err, columnNames, rows, scanFailAt) ==
    [err |-> err, columnNames |-> columnNames, rows |-> rows, scanFailAt |-> scanFailAt]

TwoRows ==
    << << Str("a"), Int64(5), Bytes("abc"), Null >>,
       << Bytes("b"), Null, Float64(314), Int64(5) >> >>

TwoRowColumns == << "datname", "xact_commit", "count", "pg_wal_lsn_diff" >>

QueryAnswers ==
    { Answer("query", <<>>, <<>>, 0),
      Answer("columns", <<>>, <<>>, 0),
      Answer("none", TwoRowColumns, TwoRows, 0),
      Answer("none", TwoRowColumns, TwoRows, 2) }

\* columnIdx[columnName] of queryNamespaceMapping as a position of columnData:
\* the last column of that name, and the first column (Go index 0) for a name
\* the statement did not return.
ColumnIdx(columnNames, columnName) ==
    LET at == {i \in 1..Len(columnNames) : columnNames[i] = columnName}
    IN  IF at = {} THEN 1 ELSE CHOOSE i \in at : \A j \in at : j <= i

RowLabels(mapping, columnNames, columnData) ==
    [idx \in 1..Len(mapping.labels) |->
        dbToString(columnData[ColumnIdx(columnNames, mapping.labels[idx])]).str]

CellOut_SkipUnknown(namespace, mapping, columnName, datum, labels) ==
    IF columnName \in DOMAIN mapping.columnMappings
    THEN LET metricMapping == mapping.columnMappings[columnName]
         IN  IF metricMapping.discard
             THEN [out |-> "skip", sample |-> <<>>]
             ELSE IF ~dbToFloat64(datum).ok
                  THEN [out |-> "error", sample |-> <<>>]
                  ELSE [out |-> "sample",
                        sample |-> Sample("ns", namespace, columnName, metricMapping.desc,
                                          metricMapping.vtype, dbToFloat64(datum).f, labels)]
    ELSE [out |-> "skip", sample |-> <<>>]

\* One column of one row: "sample", "error" (a non-fatal error) or "skip".
CellOut(namespace, mapping, columnName, datum, labels) ==
    IF columnName \in DOMAIN mapping.columnMappings
    THEN LET metricMapping == mapping.columnMappings[columnName]
         IN  IF metricMapping.discard
             THEN [out |-> "skip", sample |-> <<>>]
             ELSE IF ~dbToFloat64(datum).ok
                  THEN [out |-> "error", sample |-> <<>>]
                  ELSE [out |-> "sample",
                        sample |-> Sample("ns", namespace, columnName, metricMapping.desc,
                                          metricMapping.vtype, dbToFloat64(datum).f, labels)]
    ELSE IF ~dbToFloat64(datum).ok
         THEN [out |-> "error", sample |-> <<>>]
         ELSE [out |-> "sample",
               sample |-> Sample("ns", namespace, columnName,
                                 NewDesc(namespace \o "_" \o columnName, mapping.labels),
                                 "Untyped", dbToFloat64(datum).f, labels)]

RECURSIVE RowOut_StopAtError(_, _, _, _, _, _, _)
RowOut_StopAtError(namespace, mapping, columnNames, columnData, labels, idx, acc) ==
    IF idx > Len(columnNames) THEN acc
    ELSE LET c == CellOut(namespace, mapping, columnNames[idx], columnData[idx], labels)
         IN  IF c.out = "error"
             THEN [samples |-> acc.samples,
                   nonfatalErrors |-> Append(acc.nonfatalErrors, <<namespace, columnNames[idx]>>)]
             ELSE RowOut_StopAtError(namespace, mapping, columnNames, columnData, labels, idx + 1,
                    [samples        |-> IF c.out = "sample" THEN Append(acc.samples, c.sample)
                                        ELSE acc.samples,
                     nonfatalErrors |-> acc.nonfatalErrors])

RECURSIVE RowOut(_, _, _, _, _, _, _)
\* The inner loop over the columns of one row, from column idx on.
RowOut(namespace, mapping, columnNames, columnData, labels, idx, acc) ==
    IF idx > Len(columnNames) THEN acc
    ELSE LET c == CellOut(namespace, mapping, columnNames[idx], columnData[idx], labels)
         IN  RowOut(namespace, mapping, columnNames, columnData, labels, idx + 1,
                    [samples        |-> IF c.out = "sample" THEN Append(acc.samples, c.sample)
                                        ELSE acc.samples,
                     nonfatalErrors |-> IF c.out = "error"
                                        THEN Append(acc.nonfatalErrors, <<namespace, columnNames[idx]>>)
                                        ELSE acc.nonfatalErrors])

RECURSIVE ScanRows(_, _, _, _, _)
\* The rows.Next() loop from row k on; acc.samples are already sent on ch.
ScanRows(namespace, mapping, res, k, acc) ==
    IF k > Len(res.rows)
    THEN [samples |-> acc.samples, nonfatalErrors |-> acc.nonfatalErrors, fatal |-> ""]
    ELSE IF res.scanFailAt = k
         THEN [samples |-> acc.samples, nonfatalErrors |-> <<>>, fatal |-> "Error retrieving rows"]
         ELSE ScanRows(namespace, mapping, res, k + 1,
                       RowOut(namespace, mapping, res.columnNames, res.rows[k],
                              RowLabels(mapping, res.columnNames, res.rows[k]), 1, acc))

Statement_IgnoreEmpty(namespace, overrides) ==
    IF namespace \in DOMAIN overrides /\ overrides[namespace] # ""
    THEN overrides[namespace]
    ELSE "SELECT * FROM " \o namespace \o ";"

\* The statement queryNamespaceMapping runs for a namespace, "" when none.
Statement(namespace, overrides) ==
    IF namespace \in DOMAIN overrides
    THEN overrides[namespace]
    ELSE "SELECT * FROM " \o namespace \o ";"

\* queryNamespaceMapping: [stmt, samples, nonfatalErrors, fatal]; samples are
\* what it sent on ch, nonfatalErrors and fatal what it returned; res is what
\* the database answers to stmt.
queryNamespaceMapping(namespace, mapping, overrides, res) ==
    LET stmt == Statement(namespace, overrides)
        none == [samples |-> <<>>, nonfatalErrors |-> <<>>]
    IN  IF stmt = ""
        THEN [stmt |-> "", samples |-> <<>>, nonfatalErrors |-> <<>>, fatal |-> ""]
        ELSE [stmt |-> stmt] @@
             (CASE res.err = "query" ->
                     [samples |-> <<>>, nonfatalErrors |-> <<>>, fatal |-> "Error running query on database"]
                [] res.err = "columns" ->
                     [samples |-> <<>>, nonfatalErrors |-> <<>>, fatal |-> "Error retrieving column list"]
                [] OTHER -> ScanRows(namespace, mapping, res, 1, none))

(***************************************************************************)
(* The Exporter.                                                           *)
(***************************************************************************)
VARIABLES
    disableDefaultMetrics,  \* Exporter.disableDefaultMetrics
    userQueriesPath,        \* Exporter.userQueriesPath ("" when none)
    dbDsn,                  \* Exporter.dbDsn
    dbConnection,           \* Exporter.dbConnection: 0 is nil, else the handle
    openConns,              \* handles opened and not yet closed
    closedConns,            \* handles Close() was called on
    lastMapVersion,         \* Exporter.lastMapVersion
    metricMap,              \* Exporter.metricMap: [isNil, m]
    queryOverrides_,        \* Exporter.queryOverrides: [isNil, m]
    catalog,                \* the package maps builtinMetricMaps and queryOverrides
    mappingMtx,             \* Exporter.mappingMtx: [writer, readers]
    error,                  \* the last_scrape_error gauge
    psqlUp,                 \* the up gauge
    totalScrapes,           \* the scrapes_total counter
    userQueriesError,       \* the user_queries_load_error vector: hashsum -> value
    pc,                     \* where each Collect call stands
    ch,                     \* the samples a Collect call has sent
    entryPoint,             \* the method each caller calls: "Collect" or "Describe"
    descs,                  \* the descriptors a Describe call has forwarded
    db,                     \* scrape's db: the handle getDB returned, 0 for none
    versionString,          \* checkMapVersions' versionString
    semanticVersion,        \* checkMapVersions' semanticVersion
    versionErr,             \* whether checkMapVersions returned an error
    rebuilt,                \* whether this scrape entered the rebuild block
    settingsErr,            \* whether querySettings returned an error to scrape
    todo,                   \* namespaces the range loop has still to visit
    namespaceErrors,        \* queryNamespaceMappings' namespaceErrors (its keys)
    runs,                   \* per visited namespace: the answer and what the call returned
    call                    \* a direct call of a compile function: inputs and result

vars == << disableDefaultMetrics, userQueriesPath, dbDsn, dbConnection, openConns, closedConns,
           lastMapVersion, metricMap, queryOverrides_, catalog, mappingMtx, error, psqlUp,
           totalScrapes, userQueriesError, pc, ch, entryPoint, descs, db, versionString,
           semanticVersion, versionErr, rebuilt, settingsErr,
           todo, namespaceErrors, runs, call >>

config  == << disableDefaultMetrics, userQueriesPath, entryPoint >>
conn    == << dbDsn, dbConnection, openConns, closedConns >>
maps    == << lastMapVersion, metricMap, queryOverrides_, catalog >>
gauges  == << error, psqlUp, totalScrapes >>
locals  == << db, versionString, semanticVersion, versionErr, rebuilt, settingsErr,
              todo, namespaceErrors, runs >>

\* The callers of Collect and Describe.
Procs == DOMAIN pc

dsn == "postgresql://db"

NilMap == [isNil |-> TRUE, m |-> <<>>]
MapOf(m) == [isNil |-> FALSE, m |-> m]

NoLocals(self) ==
    /\ db' = [db EXCEPT ![self] = 0]
    /\ versionString' = [versionString EXCEPT ![self] = ""]
    /\ semanticVersion' = [semanticVersion EXCEPT ![self] = ZeroVersion]
    /\ versionErr' = [versionErr EXCEPT ![self] = FALSE]
    /\ rebuilt' = [rebuilt EXCEPT ![self] = FALSE]
    /\ settingsErr' = [settingsErr EXCEPT ![self] = FALSE]
    /\ todo' = [todo EXCEPT ![self] = {}]
    /\ namespaceErrors' = [namespaceErrors EXCEPT ![self] = {}]
    /\ runs' = [runs EXCEPT ![self] = <<>>]

\* No compile function is being called directly.
NoCall == [fn |-> "none"]

\* NewExporter(dsn, disableDefaultMetrics, userQueriesPath)
NewExporter(disableDefault, queriesPath) ==
    /\ disableDefaultMetrics = disableDefault
    /\ userQueriesPath = queriesPath
    /\ dbDsn = ""
    /\ dbConnection = 0
    /\ openConns = {}
    /\ closedConns = {}
    /\ lastMapVersion = ZeroVersion
    /\ metricMap = NilMap
    /\ queryOverrides_ = NilMap
    /\ catalog = [builtinMetricMaps |-> builtinMetricMaps, queryOverrides |-> queryOverrides]
    /\ mappingMtx = [writer |-> 0, readers |-> {}]
    /\ error = 0
    /\ psqlUp = 0
    /\ totalScrapes = 0
    /\ userQueriesError = <<>>

\* The callers of the exporter's methods, none of them in a call; method is
\* what each of them calls.
Callers(callers, method) ==
    /\ entryPoint = [p \in callers |-> method]
    /\ pc = [p \in callers |-> "idle"]
    /\ ch = [p \in callers |-> <<>>]
    /\ descs = [p \in callers |-> <<>>]
    /\ db = [p \in callers |-> 0]
    /\ versionString = [p \in callers |-> ""]
    /\ semanticVersion = [p \in callers |-> ZeroVersion]
    /\ versionErr = [p \in callers |-> FALSE]
    /\ rebuilt = [p \in callers |-> FALSE]
    /\ settingsErr = [p \in callers |-> FALSE]
    /\ todo = [p \in callers |-> {}]
    /\ namespaceErrors = [p \in callers |-> {}]
    /\ runs = [p \in callers |-> <<>>]

Init ==
    /\ \E disableDefault \in BOOLEAN, queriesPath \in {"", "queries.yaml"} :
         NewExporter(disableDefault, queriesPath)
    /\ Callers({1}, "Collect")
    /\ call = NoCall

Goto(self, label) == pc' = [pc EXCEPT ![self] = label]

\* The descriptors of a sequence of samples.
Descs(samples) == [n \in 1..Len(samples) |-> samples[n].desc]

\* Sends on the metric channel.  Describe's channel is unbuffered and read by
\* a goroutine that forwards the descriptor of each sample before it reads
\* the next: when the last of the samples has been taken, the descriptors of
\* all samples before it have been forwarded.
Send(self, samples) ==
    /\ ch' = [ch EXCEPT ![self] = ch[self] \o samples]
    /\ descs' = IF entryPoint[self] = "Describe" /\ samples # <<>>
                THEN [descs EXCEPT ![self] =
                        Descs(SubSeq(ch[self] \o samples, 1, Len(ch[self]) + Len(samples) - 1))]
                ELSE descs

ScrapeBegin_NoReset(self) ==
    /\ pc[self] = "idle"
    /\ \A p \in Procs : pc[p] # "panicked"
    /\ totalScrapes < MaxScrapes
    /\ error' = error
    /\ totalScrapes' = totalScrapes + 1
    /\ Goto(self, "getDB")
    /\ UNCHANGED << call, config, descs, conn, maps, mappingMtx, psqlUp, userQueriesError, ch, locals >>

\* Collect is called; scrape starts: e.error.Set(0); e.totalScrapes.Inc().
ScrapeBegin(self) ==
    /\ pc[self] = "idle"
    /\ \A p \in Procs : pc[p] # "panicked"
    /\ totalScrapes < MaxScrapes
    /\ error' = 0
    /\ totalScrapes' = totalScrapes + 1
    /\ Goto(self, "getDB")
    /\ UNCHANGED << call, config, descs, conn, maps, mappingMtx, psqlUp, userQueriesError, ch, locals >>

\* The handle sql.Open returns: a new *sql.DB, numbered after the handles
\* opened so far, so that no two opens yield the same handle.
FreshHandle == Cardinality(openConns \cup closedConns) + 1

Closed_Leaked(open, handle) == open

\* The open handles after e.dbConnection.Close() on a handle.
Closed(open, handle) == open \ {handle}

\* scrape when getDB returned an error: psqlUp.Set(0), error.Set(1), return.
ScrapeConnError_NoErrorFlag(self) ==
    /\ psqlUp' = 0
    /\ error' = error
    /\ Goto(self, "tail")

ScrapeConnError(self) ==
    /\ psqlUp' = 0
    /\ error' = 1
    /\ Goto(self, "tail")

PingFailed_KeepsHandle(self, handle, handleDsn, open, closed) ==
    /\ dbConnection' = handle /\ dbDsn' = handleDsn
    /\ openConns' = open /\ closedConns' = closed
    /\ db' = [db EXCEPT ![self] = 0]
    /\ ScrapeConnError(self)

\* getDB when Ping fails on handle: Close it, e.dbConnection = nil,
\* psqlUp.Set(0), return nil, err.
PingFailed(self, handle, handleDsn, open, closed) ==
    /\ dbConnection' = 0 /\ dbDsn' = handleDsn
    /\ openConns' = Closed(open, handle) /\ closedConns' = closed \cup {handle}
    /\ db' = [db EXCEPT ![self] = 0]
    /\ ScrapeConnError(self)

\* getDB(e.dsn) and scrape's handling of its error.  openOk and pingOk are
\* what sql.Open and Ping answer.
GetDB(self) ==
    /\ pc[self] = "getDB"
    /\ \E openOk \in BOOLEAN, pingOk \in BOOLEAN :
         LET changed  == dbConnection # 0 /\ dsn # dbDsn
             conn1    == IF changed THEN 0 ELSE dbConnection
             dsn1     == IF changed THEN "" ELSE dbDsn
             open1    == IF changed THEN Closed(openConns, dbConnection) ELSE openConns
             closed1  == IF changed THEN closedConns \cup {dbConnection} ELSE closedConns
             opening  == conn1 = 0
             d        == FreshHandle
         IN  IF opening /\ ~openOk
             THEN \* sql.Open failed: return nil, err
                  /\ dbConnection' = conn1 /\ dbDsn' = dsn1
                  /\ openConns' = open1 /\ closedConns' = closed1
                  /\ db' = [db EXCEPT ![self] = 0]
                  /\ ScrapeConnError(self)
             ELSE LET conn2 == IF opening THEN d ELSE conn1
                      dsn2  == IF opening THEN dsn ELSE dsn1
                      open2 == IF opening THEN open1 \cup {d} ELSE open1
                  IN  IF ~pingOk
                      THEN PingFailed(self, conn2, dsn2, open2, closed1)
                      ELSE /\ dbConnection' = conn2 /\ dbDsn' = dsn2
                           /\ openConns' = open2 /\ closedConns' = closed1
                           /\ psqlUp' = 1 /\ error' = error
                           /\ db' = [db EXCEPT ![self] = conn2]
                           /\ Goto(self, "version")
    /\ UNCHANGED << call, config, descs, maps, mappingMtx, totalScrapes, userQueriesError, ch,
                    versionString, semanticVersion, versionErr, rebuilt, settingsErr, todo,
                    namespaceErrors, runs >>

NeedsRebuild_VersionOnly(version, last, map) == version # last

NeedsRebuild_EmptyIsMissing(version, last, map) ==
    version # last \/ map.isNil \/ DOMAIN map.m = {}

VersionCheckFailed_Abort(self) ==
    /\ error' = 1
    /\ Goto(self, "tail")

\* scrape when checkMapVersions returned an error: it warns, sets the error
\* gauge and goes on with the maps it has.
VersionCheckFailed(self) ==
    /\ error' = 1
    /\ Goto(self, "rlock")

\* The condition of the rebuild block.
NeedsRebuild(version, last, map) == version # last \/ map.isNil

\* What the read of e.lastMapVersion in the rebuild condition can yield.  The
\* read takes no lock: next to a rebuild that is assigning the field it can
\* see the old value, the new one, or some fields of each.
LastMapVersionReads(self) ==
    {lastMapVersion} \cup
    UNION { { << a[1], b[2], c[3] >> :
                a \in {lastMapVersion, semanticVersion[q]},
                b \in {lastMapVersion, semanticVersion[q]},
                c \in {lastMapVersion, semanticVersion[q]} } :
            q \in {x \in Procs \ {self} : pc[x] = "setVersion"} }

\* checkMapVersions up to the rebuild condition: SELECT version(), Scan,
\* parseVersion.  scanOk is whether the row scanned; banner is its text.
CheckVersion(self) ==
    /\ pc[self] = "version"
    /\ \E scanOk \in BOOLEAN, banner \in Banners :
         LET parsed == parseVersion(banner)
         IN  IF ~scanOk \/ parsed.err
             THEN \* the error is returned to scrape: e.error.Set(1)
                  /\ versionErr' = [versionErr EXCEPT ![self] = TRUE]
                  /\ versionString' = [versionString EXCEPT ![self] = IF scanOk THEN banner ELSE ""]
                  /\ UNCHANGED semanticVersion
                  /\ VersionCheckFailed(self)
             ELSE /\ versionErr' = [versionErr EXCEPT ![self] = FALSE]
                  /\ versionString' = [versionString EXCEPT ![self] = banner]
                  /\ semanticVersion' = [semanticVersion EXCEPT ![self] = parsed.v]
                  /\ error' = error
                  /\ \E last \in LastMapVersionReads(self) :
                        IF NeedsRebuild(parsed.v, last, metricMap)
                        THEN Goto(self, "lock")
                        ELSE Goto(self, "emitVersion")
    /\ UNCHANGED << call, config, descs, conn, maps, mappingMtx, psqlUp, totalScrapes, userQueriesError,
                    ch, db, rebuilt, settingsErr, todo, namespaceErrors, runs >>

\* e.mappingMtx.Lock()
Lock(self) ==
    /\ pc[self] = "lock"
    /\ mappingMtx.writer = 0 /\ mappingMtx.readers = {}
    /\ mappingMtx' = [mappingMtx EXCEPT !.writer = self]
    /\ rebuilt' = [rebuilt EXCEPT ![self] = TRUE]
    /\ Goto(self, "rebuildMap")
    /\ UNCHANGED << call, config, descs, conn, maps, gauges, userQueriesError, ch, db, versionString,
                    semanticVersion, versionErr, settingsErr, todo, namespaceErrors, runs >>

\* e.metricMap = make(...) or makeDescMap(semanticVersion, e.builtinMetricMaps)
RebuildMap(self) ==
    /\ pc[self] = "rebuildMap"
    /\ \E m \in (IF disableDefaultMetrics THEN {<<>>}
                 ELSE makeDescMap(semanticVersion[self], catalog.builtinMetricMaps)) :
         metricMap' = MapOf(m)
    /\ Goto(self, "rebuildOverrides")
    /\ UNCHANGED << call, config, descs, conn, lastMapVersion, queryOverrides_, catalog, mappingMtx, gauges,
                    userQueriesError, ch, locals >>

\* e.queryOverrides = make(...) or makeQueryOverrideMap(semanticVersion, queryOverrides)
RebuildOverrides(self) ==
    /\ pc[self] = "rebuildOverrides"
    /\ queryOverrides_' = MapOf(IF disableDefaultMetrics THEN <<>>
                                ELSE makeQueryOverrideMap(semanticVersion[self], catalog.queryOverrides))
    /\ Goto(self, "setVersion")
    /\ UNCHANGED << call, config, descs, conn, lastMapVersion, metricMap, catalog, mappingMtx, gauges,
                    userQueriesError, ch, locals >>

SetVersion_Skipped(self) ==
    /\ pc[self] = "setVersion"
    /\ Goto(self, "userQueries")
    /\ UNCHANGED << call, config, descs, conn, maps, mappingMtx, gauges, userQueriesError, ch, locals >>

\* e.lastMapVersion = semanticVersion
SetVersion(self) ==
    /\ pc[self] = "setVersion"
    /\ lastMapVersion' = semanticVersion[self]
    /\ Goto(self, "userQueries")
    /\ UNCHANGED << call, config, descs, conn, metricMap, queryOverrides_, catalog, mappingMtx, gauges,
                    userQueriesError, ch, locals >>

\* addQueries' merge loops as written into the package maps instead of the
\* exporter's: every merged query becomes an override candidate.
CatalogAfterAddQueries_Shared(cat, exporterMap, queryOverrideMap) ==
    [cat EXCEPT !.queryOverrides =
        [ns \in DOMAIN queryOverrideMap \cup DOMAIN cat.queryOverrides |->
            IF ns \in DOMAIN queryOverrideMap
            THEN << OQ(">=0.0.0", queryOverrideMap[ns]) >>
            ELSE cat.queryOverrides[ns]]]

\* What addQueries' merge loops leave in the package maps: they assign
\* exporterMap[k] and queryOverrideMap[k], which the rebuild made afresh
\* with makeDescMap, makeQueryOverrideMap or make; the package maps are read.
CatalogAfterAddQueries(cat, exporterMap, queryOverrideMap) == cat

\* The rebuild as it would be were the version committed only by a merge
\* that succeeds: a failed load leaves lastMapVersion at the zero version.
UserQueries_RetryOnFailure(self) ==
    /\ pc[self] = "userQueries"
    /\ IF userQueriesPath = ""
       THEN /\ UNCHANGED << lastMapVersion, metricMap, queryOverrides_, catalog, userQueriesError >>
            /\ Goto(self, "unlock")
       ELSE \E content \in UserDocs :
              IF ~content.readable
              THEN /\ userQueriesError' = [h \in {""} |-> 1]
                   /\ lastMapVersion' = ZeroVersion
                   /\ UNCHANGED << metricMap, queryOverrides_, catalog >>
                   /\ Goto(self, "unlock")
              ELSE \E r \in addQueries(content, semanticVersion[self], metricMap.m, queryOverrides_.m) :
                     CASE r.outcome = "panic" ->
                            /\ userQueriesError' = <<>>
                            /\ UNCHANGED << lastMapVersion, metricMap, queryOverrides_, catalog >>
                            /\ Goto(self, "panicked")
                       [] r.outcome = "err" ->
                            /\ userQueriesError' = [h \in {content.hashsum} |-> 1]
                            /\ lastMapVersion' = ZeroVersion
                            /\ UNCHANGED << metricMap, queryOverrides_, catalog >>
                            /\ Goto(self, "unlock")
                       [] OTHER ->
                            /\ userQueriesError' = [h \in {content.hashsum} |-> 0]
                            /\ metricMap' = MapOf(r.exporterMap)
                            /\ queryOverrides_' = MapOf(r.queryOverrideMap)
                            /\ UNCHANGED << lastMapVersion, catalog >>
                            /\ Goto(self, "unlock")
    /\ UNCHANGED << call, config, descs, conn, mappingMtx, gauges, ch, locals >>

\* The userQueriesPath block of the rebuild: Reset, ReadFile, addQueries and
\* the load-error gauge.  content is the document ReadFile finds.  A failed
\* type assertion in addQueries panics with the lock held.
UserQueries(self) ==
    /\ pc[self] = "userQueries"
    /\ IF userQueriesPath = ""
       THEN /\ UNCHANGED << metricMap, queryOverrides_, catalog, userQueriesError >>
            /\ Goto(self, "unlock")
       ELSE \E content \in UserDocs :
              IF ~content.readable
              THEN /\ userQueriesError' = [h \in {""} |-> 1]
                   /\ UNCHANGED << metricMap, queryOverrides_, catalog >>
                   /\ Goto(self, "unlock")
              ELSE \E r \in addQueries(content, semanticVersion[self], metricMap.m, queryOverrides_.m) :
                     CASE r.outcome = "panic" ->
                            /\ userQueriesError' = <<>>
                            /\ UNCHANGED << metricMap, queryOverrides_, catalog >>
                            /\ Goto(self, "panicked")
                       [] r.outcome = "err" ->
                            /\ userQueriesError' = [h \in {content.hashsum} |-> 1]
                            /\ UNCHANGED << metricMap, queryOverrides_, catalog >>
                            /\ Goto(self, "unlock")
                       [] OTHER ->
                            /\ userQueriesError' = [h \in {content.hashsum} |-> 0]
                            /\ metricMap' = MapOf(r.exporterMap)
                            /\ queryOverrides_' = MapOf(r.queryOverrideMap)
                            /\ catalog' = CatalogAfterAddQueries(catalog, r.exporterMap, r.queryOverrideMap)
                            /\ Goto(self, "unlock")
    /\ UNCHANGED << call, config, descs, conn, lastMapVersion, mappingMtx, gauges, ch, locals >>

\* e.mappingMtx.Unlock()
Unlock(self) ==
    /\ pc[self] = "unlock"
    /\ mappingMtx' = [mappingMtx EXCEPT !.writer = 0]
    /\ Goto(self, "emitVersion")
    /\ UNCHANGED << call, config, descs, conn, maps, gauges, userQueriesError, ch, locals >>

VersionDesc == NewDesc("pg_static", << "version", "short_version" >>)

EmitVersion_OnlyOnRebuild(self) ==
    /\ pc[self] = "emitVersion"
    /\ Send(self, IF rebuilt[self]
                  THEN << Sample("version", "", "", VersionDesc, "Untyped", F(100),
                                 << versionString[self], VersionString(semanticVersion[self]) >>) >>
                  ELSE <<>>)
    /\ Goto(self, "rlock")
    /\ UNCHANGED << call, config, conn, maps, mappingMtx, gauges, userQueriesError, locals >>

\* Output the version as a special metric; checkMapVersions returns nil.
EmitVersion(self) ==
    /\ pc[self] = "emitVersion"
    /\ Send(self, << Sample("version", "", "", VersionDesc, "Untyped", F(100),
                            << versionString[self], VersionString(semanticVersion[self]) >>) >>)
    /\ Goto(self, "rlock")
    /\ UNCHANGED << call, config, conn, maps, mappingMtx, gauges, userQueriesError, locals >>

\* e.mappingMtx.RLock()
RLock(self) ==
    /\ pc[self] = "rlock"
    /\ mappingMtx.writer = 0
    /\ mappingMtx' = [mappingMtx EXCEPT !.readers = @ \cup {self}]
    /\ Goto(self, "settings")
    /\ UNCHANGED << call, config, descs, conn, maps, gauges, userQueriesError, ch, locals >>

\* querySettings(ch, db): settingsOk is whether it returned nil.  Afterwards
\* queryNamespaceMappings starts to range over e.metricMap.
QuerySettings(self) ==
    /\ pc[self] = "settings"
    /\ \E settingsOk \in BOOLEAN :
         /\ settingsErr' = [settingsErr EXCEPT ![self] = ~settingsOk]
         /\ IF settingsOk
            THEN /\ Send(self, << Sample("setting", "", "", NewDesc("pg_settings", <<>>),
                                         "Gauge", F(100), <<>>) >>)
                 /\ error' = error
            ELSE /\ UNCHANGED << ch, descs >>
                 /\ error' = 1
    /\ todo' = [todo EXCEPT ![self] = DOMAIN metricMap.m]
    /\ namespaceErrors' = [namespaceErrors EXCEPT ![self] = {}]
    /\ runs' = [runs EXCEPT ![self] = <<>>]
    /\ Goto(self, "namespaces")
    /\ UNCHANGED << call, config, conn, maps, mappingMtx, psqlUp, totalScrapes, userQueriesError,
                    db, versionString, semanticVersion, versionErr, rebuilt >>

Remaining_RetryFatal(left, namespace, fatal) ==
    IF fatal # "" THEN left ELSE left \ {namespace}

Remaining_StopOnFatal(left, namespace, fatal) ==
    IF fatal # "" THEN {} ELSE left \ {namespace}

\* The namespaces queryNamespaceMappings' loop has still to visit once it has
\* handled namespace: a fatal error is recorded and the loop goes on.
Remaining(left, namespace, fatal) == left \ {namespace}

\* One turn of queryNamespaceMappings' loop, on any namespace not yet
\* visited; res is what the database answers to its statement.
QueryNamespace(self) ==
    /\ pc[self] = "namespaces"
    /\ \E namespace \in todo[self] :
         \E res \in (IF Statement(namespace, queryOverrides_.m) = ""
                     THEN {Answer("none", <<>>, <<>>, 0)} ELSE QueryAnswers) :
           LET r == queryNamespaceMapping(namespace, metricMap.m[namespace], queryOverrides_.m, res)
           IN  /\ Send(self, r.samples)
               /\ namespaceErrors' = [namespaceErrors EXCEPT ![self] =
                                         IF r.fatal # "" THEN @ \cup {namespace} ELSE @]
               /\ runs' = [runs EXCEPT ![self] =
                              (namespace :> [res |-> res, stmt |-> r.stmt, fatal |-> r.fatal,
                                             nonfatalErrors |-> r.nonfatalErrors,
                                             from |-> Len(ch[self]) + 1,
                                             to |-> Len(ch[self]) + Len(r.samples)]) @@ @]
               /\ todo' = [todo EXCEPT ![self] = Remaining(@, namespace, r.fatal)]
    /\ UNCHANGED << call, config, conn, maps, mappingMtx, gauges, userQueriesError, pc,
                    db, versionString, semanticVersion, versionErr, rebuilt, settingsErr >>

\* The loop has ended: len(errMap) > 0 sets the error gauge; the deferred
\* RUnlock and duration.Set run and scrape returns.
ScrapeReturn(self) ==
    /\ pc[self] = "namespaces"
    /\ todo[self] = {}
    /\ error' = IF namespaceErrors[self] # {} THEN 1 ELSE error
    /\ mappingMtx' = [mappingMtx EXCEPT !.readers = @ \ {self}]
    /\ Goto(self, "tail")
    /\ UNCHANGED << call, config, descs, conn, maps, psqlUp, totalScrapes, userQueriesError, ch, locals >>

Health(kind, name, vtype, value) == Sample(kind, "", "", NewDesc(name, <<>>), vtype, F(100 * value), <<>>)

\* The series of the user_queries_load_error vector.
UserQueriesErrorSamples ==
    IF DOMAIN userQueriesError = {} THEN <<>>
    ELSE LET h == CHOOSE k \in DOMAIN userQueriesError : TRUE
         IN  << Sample("userQueriesError", "", "",
                       NewDesc("pg_exporter_user_queries_load_error", << "filename", "hashsum" >>),
                       "Gauge", F(100 * userQueriesError[h]), << userQueriesPath, h >>) >>

\* Collect after e.scrape(ch): the exporter's own metrics.
CollectTail(self) ==
    /\ pc[self] = "tail"
    /\ Send(self, << Health("duration", "pg_exporter_last_scrape_duration_seconds", "Gauge", 0),
                     Health("totalScrapes", "pg_exporter_scrapes_total", "Counter", totalScrapes),
                     Health("error", "pg_exporter_last_scrape_error", "Gauge", error),
                     Health("psqlUp", "pg_up", "Gauge", psqlUp) >>
                  \o UserQueriesErrorSamples)
    /\ Goto(self, "done")
    /\ UNCHANGED << call, config, conn, maps, mappingMtx, gauges, userQueriesError, locals >>

Return_NoWait(self) ==
    /\ pc[self] = "done"
    /\ Goto(self, "idle")
    /\ ch' = [ch EXCEPT ![self] = <<>>]
    /\ descs' = [descs EXCEPT ![self] = <<>>]
    /\ NoLocals(self)
    /\ UNCHANGED << call, config, conn, maps, mappingMtx, gauges, userQueriesError >>

\* Collect returns; the caller drops the channel.  In Describe, Collect has
\* returned: close(metricCh), <-doneCh, return.
Return(self) ==
    /\ pc[self] = "done"
    /\ entryPoint[self] = "Describe" => Len(descs[self]) = Len(ch[self])
    /\ Goto(self, "idle")
    /\ ch' = [ch EXCEPT ![self] = <<>>]
    /\ descs' = [descs EXCEPT ![self] = <<>>]
    /\ NoLocals(self)
    /\ UNCHANGED << call, config, conn, maps, mappingMtx, gauges, userQueriesError >>

Next ==
    \E self \in Procs :
        \/ ScrapeBegin(self)
        \/ GetDB(self)
        \/ CheckVersion(self)
        \/ Lock(self)
        \/ RebuildMap(self)
        \/ RebuildOverrides(self)
        \/ SetVersion(self)
        \/ UserQueries(self)
        \/ Unlock(self)
        \/ EmitVersion(self)
        \/ RLock(self)
        \/ QuerySettings(self)
        \/ QueryNamespace(self)
        \/ ScrapeReturn(self)
        \/ CollectTail(self)
        \/ Return(self)

Spec == Init /\ [][Next]_vars

(***************************************************************************)
(* Collect called by two callers at once.  getDB takes no lock, so its     *)
(* statements are steps of their own: the test of e.dbConnection, sql.Open *)
(* with the assignment of the handle, and Ping with what follows it.       *)
(***************************************************************************)
\* getDB up to `if e.dbConnection == nil`.
GetDBCheck(self) ==
    /\ pc[self] = "getDB"
    /\ LET changed == dbConnection # 0 /\ dsn # dbDsn
       IN  /\ dbConnection' = IF changed THEN 0 ELSE dbConnection
           /\ dbDsn' = IF changed THEN "" ELSE dbDsn
           /\ openConns' = IF changed THEN Closed(openConns, dbConnection) ELSE openConns
           /\ closedConns' = IF changed THEN closedConns \cup {dbConnection} ELSE closedConns
           /\ Goto(self, IF dbConnection' = 0 THEN "open" ELSE "ping")
    /\ UNCHANGED << call, config, descs, maps, mappingMtx, gauges, userQueriesError, ch, locals >>

\* sql.Open; on success e.dbConnection = d and e.dbDsn = e.dsn, whatever
\* e.dbConnection holds by now.
Open(self) ==
    /\ pc[self] = "open"
    /\ \E openOk \in BOOLEAN :
         IF ~openOk
         THEN /\ db' = [db EXCEPT ![self] = 0]
              /\ ScrapeConnError(self)
              /\ UNCHANGED conn
         ELSE /\ dbConnection' = FreshHandle /\ dbDsn' = dsn
              /\ openConns' = openConns \cup {FreshHandle}
              /\ Goto(self, "ping")
              /\ UNCHANGED << closedConns, db, psqlUp, error >>
    /\ UNCHANGED << call, config, descs, maps, mappingMtx, totalScrapes, userQueriesError, ch,
                    versionString, semanticVersion, versionErr, rebuilt, settingsErr, todo,
                    namespaceErrors, runs >>

\* e.dbConnection.Ping() on the handle the exporter holds by now, a nil
\* pointer dereference when it holds none; then Close and nil, or the return
\* of e.dbConnection.
Ping(self) ==
    /\ pc[self] = "ping"
    /\ IF dbConnection = 0
       THEN /\ Goto(self, "panicked")
            /\ UNCHANGED << conn, db, psqlUp, error >>
       ELSE \E pingOk \in BOOLEAN :
              IF ~pingOk
              THEN PingFailed(self, dbConnection, dbDsn, openConns, closedConns)
              ELSE /\ psqlUp' = 1 /\ error' = error
                   /\ db' = [db EXCEPT ![self] = dbConnection]
                   /\ Goto(self, "version")
                   /\ UNCHANGED conn
    /\ UNCHANGED << call, config, descs, maps, mappingMtx, totalScrapes, userQueriesError, ch,
                    versionString, semanticVersion, versionErr, rebuilt, settingsErr, todo,
                    namespaceErrors, runs >>

\* The exporter two callers scrape at once: the user's queries alone.
ConcurrentConfigs == { << TRUE, "queries.yaml" >> }

InitConcurrent ==
    /\ \E cfg \in ConcurrentConfigs : NewExporter(cfg[1], cfg[2])
    /\ Callers({1, 2}, "Collect")
    /\ call = NoCall

NextConcurrent ==
    \E self \in Procs :
        \/ ScrapeBegin(self)
        \/ GetDBCheck(self)
        \/ Open(self)
        \/ Ping(self)
        \/ CheckVersion(self)
        \/ Lock(self)
        \/ RebuildMap(self)
        \/ RebuildOverrides(self)
        \/ SetVersion(self)
        \/ UserQueries(self)
        \/ Unlock(self)
        \/ EmitVersion(self)
        \/ RLock(self)
        \/ QuerySettings(self)
        \/ QueryNamespace(self)
        \/ ScrapeReturn(self)
        \/ CollectTail(self)
        \/ Return(self)

SpecConcurrent == InitConcurrent /\ [][NextConcurrent]_vars

(***************************************************************************)
(* Describe: the calls are calls of Describe, which runs Collect on a      *)
(* channel of its own while a goroutine forwards the descriptors.          *)
(***************************************************************************)
\* Describe's goroutine: ch <- m.Desc() for the sample it took last.
Forward(self) ==
    /\ entryPoint[self] = "Describe"
    /\ Len(descs[self]) < Len(ch[self])
    /\ descs' = [descs EXCEPT ![self] = Append(@, ch[self][Len(@) + 1].desc)]
    /\ UNCHANGED << call, config, conn, maps, mappingMtx, gauges, userQueriesError, pc, ch, locals >>

\* The exporters Describe is called on: the built-in maps alone, and the
\* user's queries alone.
DescribeConfigs == { << FALSE, "" >>, << TRUE, "queries.yaml" >> }

InitDescribe ==
    /\ \E cfg \in DescribeConfigs : NewExporter(cfg[1], cfg[2])
    /\ Callers({1}, "Describe")
    /\ call = NoCall

NextDescribe ==
    \/ Next
    \/ \E self \in Procs : Forward(self)

\* The goroutines of Describe run, and the receiver of the descriptors
\* keeps reading.
FairDescribe ==
    \A self \in {1} :
        /\ WF_vars(CollectTail(self))
        /\ WF_vars(Forward(self))
        /\ WF_vars(Return(self))

SpecDescribe == InitDescribe /\ [][NextDescribe]_vars /\ FairDescribe

(***************************************************************************)
(* The compile functions called directly, on more catalogs, versions and   *)
(* documents than one exporter meets.                                      *)
(***************************************************************************)
CompileVersions == {<<0, 0, 0>>, <<9, 1, 0>>, <<9, 2, 0>>, <<9, 6, 2>>, <<10, 0, 0>>, <<11, 1, 0>>}

\* A catalog with every usage, each once unrestricted and once for 10.0.0 up.
UsageColumns ==
    [c \in {"d", "l", "c", "g", "m", "t", "d10", "l10", "c10", "g10", "m10", "t10"} |->
        [mapping |-> IF c \in {"m", "m10"} THEN [txt \in {"idle"} |-> F(100)] ELSE <<>>] @@
        CM(CASE c \in {"d", "d10"} -> "DISCARD"
             [] c \in {"l", "l10"} -> "LABEL"
             [] c \in {"c", "c10"} -> "COUNTER"
             [] c \in {"g", "g10"} -> "GAUGE"
             [] c \in {"m", "m10"} -> "MAPPEDMETRIC"
             [] c \in {"t", "t10"} -> "DURATION",
           IF c \in {"d10", "l10", "c10", "g10", "m10", "t10"} THEN ">=10.0.0" ELSE "nil")]

UsageCatalog == [ns \in {"pg_usage"} |-> UsageColumns]

CompileCatalogs == {builtinMetricMaps, UsageCatalog}

\* Override catalogs: the built-in one, and one with a namespace that has a
\* single candidate for old servers only.
OldOnlyOverrides ==
    [ns \in {"pg_stat_replication", "pg_old"} |->
        IF ns = "pg_old" THEN << OQ("<9.2.0", "Q_old") >> ELSE queryOverrides[ns]]

CompileOverrides == {queryOverrides, OldOnlyOverrides}

\* A query and no metrics: enables pg_stat_activity where the catalog
\* disabled it.
DocQueryOnly ==
    [hashsum |-> "h_queryonly", readable |-> TRUE, yamlOk |-> TRUE,
     extra |-> [ns \in {"pg_stat_activity"} |->
                  NsSpec(TRUE, TRUE, TRUE, "Q_user_activity", <<>>)]]

\* An empty query text: disables pg_stat_replication.
DocDisable ==
    [hashsum |-> "h_disable", readable |-> TRUE, yamlOk |-> TRUE,
     extra |-> [ns \in {"pg_stat_replication"} |-> NsSpec(TRUE, TRUE, TRUE, "", <<>>)]]

\* Two namespaces: a new one with metrics and no query, and pg_stat_activity
\* redeclared with other columns.
DocTwo ==
    [hashsum |-> "h_two", readable |-> TRUE, yamlOk |-> TRUE,
     extra |-> [ns \in {"pg_custom", "pg_stat_activity"} |->
                  IF ns = "pg_custom"
                  THEN NsSpec(TRUE, FALSE, FALSE, "",
                              << Col("a", "LABEL"), Col("b", "LABEL"), Col("n", "GAUGE") >>)
                  ELSE NsSpec(TRUE, TRUE, TRUE, "Q_user_activity",
                              << Col("usename", "LABEL"), Col("count", "DURATION") >>)]]

\* A good namespace next to one with an unknown usage.
DocHalfBogus ==
    [hashsum |-> "h_halfbogus", readable |-> TRUE, yamlOk |-> TRUE,
     extra |-> [ns \in {"pg_custom", "pg_stat_activity"} |->
                  IF ns = "pg_custom"
                  THEN NsSpec(TRUE, TRUE, TRUE, "Q_custom", << Col("n", "GAUGE") >>)
                  ELSE NsSpec(TRUE, TRUE, TRUE, "Q_user_activity", << Col("count", "BOGUS") >>)]]

\* A query that is not text.
DocQueryNotText ==
    [hashsum |-> "h_querynottext", readable |-> TRUE, yamlOk |-> TRUE,
     extra |-> [ns \in {"pg_stat_database"} |->
                  NsSpec(TRUE, TRUE, FALSE, "", << Col("datname", "LABEL") >>)]]

CompileDocs ==
    (UserDocs \ {DocUnreadable})
        \cup {DocQueryOnly, DocDisable, DocTwo, DocHalfBogus, DocQueryNotText}

\* The values a driver hands back for one column of one row.
DriverValues ==
    {Int64(5), Int64(-3), Float64(314), Time(7), Bytes("3.14"), Bytes("abc"), Bytes("1h"),
     Str("5"), Str("-1"), Str("idle"), Str(""), Null, Bool,
     Bytes("-1"), Str("250ms"), Bytes("1500us"), Str("-1500us"), Str("1h")}

\* A result for the namespace of UsageCatalog: every usage is returned, the
\* label column l10 is not, and one column is not in the catalog.
UsageAnswerColumns == << "l", "c", "g", "m", "t", "d", "c10", "t10", "extra" >>

UsageRows ==
    << << Str("x"), Int64(5), Str("3.14"), Str("idle"), Str("1h"), Int64(7), Null,
          Bytes("250ms"), Float64(314) >>,
       << Null, Null, Bytes("abc"), Bytes("idle"), Str("-1"), Str("q"), Time(7),
          Int64(5), Bool >> >>

UsageAnswers ==
    { Answer("none", UsageAnswerColumns, UsageRows, 0),
      Answer("none", UsageAnswerColumns, UsageRows, 2) }

\* The banners parseVersion is called on directly: those of Banners, and
\* banners with one, two and four numbers, with text glued to the number,
\* and with no number after the leading word.
MoreBanners ==
    Banners \cup
    {"PostgreSQL 11", "PostgreSQL 9.6.2.1", "PostgreSQL 10beta1", "psql_13 12.4 (Debian 12.4-1)",
     "PostgreSQL beta", "PostgreSQL", ""}

\* The arguments of one direct call: of the compile functions, of
\* dbToFloat64, or of queryNamespaceMapping.
(***************************************************************************)
(* The configuration lookup: flags set on the command line, the ini file   *)
(* mapped onto cfg, and lookupConfig over both.                            *)
(***************************************************************************)
Field(ini, kind) == [ini |-> ini, kind |-> kind]

\* type config struct: its fields in order, by ini tag.
ConfigFields ==
    << Field("dsn", "string"), Field("disable-default-metrics", "bool"),
       Field("dumpmaps", "bool"), Field("web", "struct"), Field("extend", "struct") >>

\* type webConfig struct and type extendConfig struct.
SectionFields(section) ==
    IF section = "web"
    THEN << Field("listen-address", "string"), Field("telemetry-path", "string"),
            Field("ssl-cert-file", "string"), Field("ssl-key-file", "string"),
            Field("auth-file", "ptr") >>
    ELSE << Field("query-path", "string") >>

Tags(fields) == {fields[i].ini : i \in 1..Len(fields)}

FieldAt(fields, ini) == fields[CHOOSE i \in 1..Len(fields) : fields[i].ini = ini]

\* The value of a field of new(config) that nothing was mapped onto; a
\* pointer is [isNil, elem].
ZeroValue(kind) ==
    CASE kind = "bool" -> FALSE
      [] kind = "ptr"  -> [isNil |-> TRUE, elem |-> ""]
      [] OTHER         -> ""

\* cfg after ini.MapTo(cfg, *configPath): file is section -> key -> value,
\* the keys outside any section under "".  A field is the value of its key
\* when the file's section has the key, and is left as it was otherwise.
MapTo(file) ==
    LET MappedField(keys, field) ==
            IF field.ini \in DOMAIN keys
            THEN (IF field.kind = "ptr" THEN [isNil |-> FALSE, elem |-> keys[field.ini]]
                  ELSE keys[field.ini])
            ELSE ZeroValue(field.kind)
    IN  [f \in Tags(ConfigFields) |->
            IF FieldAt(ConfigFields, f).kind = "struct"
            THEN [k \in Tags(SectionFields(f)) |->
                     MappedField(file[f], FieldAt(SectionFields(f), k))]
            ELSE MappedField(file[""], FieldAt(ConfigFields, f))]

\* The names lookupConfig is called with, and two that name no field.
LookupNames ==
    {"dsn", "dumpmaps", "disable-default-metrics", "query-path", "web.listen-address",
     "web.telemetry-path", "web.ssl-cert-file", "web.auth-file", "web.log-level", "extend.query-path"}

\* lookupConfig's split of name at its first ".": section and key.
SplitName(name) ==
    CASE name = "web.listen-address" -> [section |-> "web", key |-> "listen-address"]
      [] name = "web.telemetry-path" -> [section |-> "web", key |-> "telemetry-path"]
      [] name = "web.ssl-cert-file"  -> [section |-> "web", key |-> "ssl-cert-file"]
      [] name = "web.auth-file"      -> [section |-> "web", key |-> "auth-file"]
      [] name = "web.log-level"      -> [section |-> "web", key |-> "log-level"]
      [] name = "extend.query-path"  -> [section |-> "extend", key |-> "query-path"]
      [] OTHER                       -> [section |-> "", key |-> name]

\* lookupFlag(name): flags holds the flags set on the command line, which
\* are the ones flag.Visit visits.
lookupFlag(flags, name) ==
    [flagSet |-> name \in DOMAIN flags,
     flagValue |-> IF name \in DOMAIN flags THEN flags[name] ELSE ""]

\* lookupConfig(name, defaultValue), flags and cfg being the globals it reads.
lookupConfig(flags, cfg, name, defaultValue) ==
    LET flag    == lookupFlag(flags, name)
        section == SplitName(name).section
        key     == SplitName(name).key
        matched == {i \in 1..Len(ConfigFields) :
                       ConfigFields[i].ini = (IF section = "" THEN key ELSE section)}
    IN  IF flag.flagSet THEN flag.flagValue
        ELSE IF matched = {} THEN defaultValue
        ELSE LET i  == CHOOSE m \in matched : \A o \in matched : m <= o
                 v  == cfg[ConfigFields[i].ini]
                 st == SectionFields(ConfigFields[i].ini)
             IN  IF section = "" THEN v
                 ELSE IF key \notin Tags(st) THEN defaultValue
                 ELSE IF FieldAt(st, key).kind # "ptr" THEN v[key]
                 ELSE IF v[key].isNil THEN defaultValue
                 ELSE v[key].elem

\* The value kind of the setting a name stands for.
KindOf(name) == IF name \in {"dumpmaps", "disable-default-metrics"} THEN "bool" ELSE "string"

FileWith(keys, text, bool) ==
    [sec \in {"", "web", "extend"} |->
        LET fields == IF sec = "" THEN ConfigFields ELSE SectionFields(sec)
        IN  [k \in {t \in Tags(fields) : t \in keys /\ FieldAt(fields, t).kind # "struct"} |->
                IF FieldAt(fields, k).kind = "bool" THEN bool ELSE text]]

\* The configuration files: which keys they set, and to what.
ConfigFiles ==
    LET FileKeys ==
            { {}, {"listen-address", "dumpmaps"},
              {"dsn", "auth-file", "query-path", "ssl-cert-file"},
              {"dsn", "disable-default-metrics", "dumpmaps"} \cup Tags(SectionFields("web"))
                 \cup Tags(SectionFields("extend")) }
    IN  {FileWith(keys, text, bool) : keys \in FileKeys, text \in {"a", "b"}, bool \in BOOLEAN}

InitCompile ==
    /\ NewExporter(FALSE, "queries.yaml")
    /\ Callers({1}, "Collect")
    /\ \/ \E v \in CompileVersions, cat \in CompileCatalogs, ov \in CompileOverrides,
             content \in CompileDocs :
            call = [fn |-> "none", of |-> "compile", pgVersion |-> v, metricMaps |-> cat,
                    overrides |-> ov, content |-> content]
       \/ \E value \in DriverValues :
            call = [fn |-> "none", of |-> "convert", value |-> value]
       \/ \E banner \in MoreBanners :
            call = [fn |-> "none", of |-> "parse", versionString |-> banner]
       \/ \E v \in CompileVersions, cat \in CompileCatalogs,
             res \in QueryAnswers \cup UsageAnswers :
            call = [fn |-> "none", of |-> "query", pgVersion |-> v, metricMaps |-> cat,
                    res |-> res]
       \/ \E name \in LookupNames, file \in ConfigFiles, flagSet \in BOOLEAN :
            LET values == IF KindOf(name) = "bool" THEN BOOLEAN ELSE {"", "a", "b"}
            IN  \E flagValue \in values, defaultValue \in values :
               call = [fn |-> "none", of |-> "lookup", name |-> name, file |-> file,
                       flags |-> IF flagSet THEN (name :> flagValue) ELSE <<>>,
                       defaultValue |-> defaultValue]

exporterState == << config, conn, maps, mappingMtx, gauges, userQueriesError, pc, ch, descs, locals >>

\* makeQueryOverrideMap(pgVersion, overrides)
CallMakeQueryOverrideMap ==
    /\ call.fn = "none" /\ call.of = "compile"
    /\ call' = [fn |-> "makeQueryOverrideMap", pgVersion |-> call.pgVersion,
                overrides |-> call.overrides,
                out |-> makeQueryOverrideMap(call.pgVersion, call.overrides)]
    /\ UNCHANGED exporterState

\* makeDescMap(pgVersion, metricMaps), twice on the same arguments.
CallMakeDescMap ==
    /\ call.fn = "none" /\ call.of = "compile"
    /\ \E first \in makeDescMap(call.pgVersion, call.metricMaps),
          second \in makeDescMap(call.pgVersion, call.metricMaps) :
         call' = [fn |-> "makeDescMap", pgVersion |-> call.pgVersion,
                  metricMaps |-> call.metricMaps, out |-> first, again |-> second]
    /\ UNCHANGED exporterState

\* addQueries(content, pgVersion, exporterMap, queryOverrideMap) on the maps
\* compiled from the catalog.
CallAddQueries ==
    /\ call.fn = "none" /\ call.of = "compile"
    /\ \E exporterMap \in makeDescMap(call.pgVersion, call.metricMaps) :
         LET queryOverrideMap == makeQueryOverrideMap(call.pgVersion, call.overrides)
         IN  \E r \in addQueries(call.content, call.pgVersion, exporterMap, queryOverrideMap) :
                call' = [fn |-> "addQueries", pgVersion |-> call.pgVersion,
                         content |-> call.content,
                         exporterMap |-> exporterMap, queryOverrideMap |-> queryOverrideMap,
                         out |-> r]
    /\ UNCHANGED exporterState

\* dbToFloat64(value)
CallDbToFloat64 ==
    /\ call.fn = "none" /\ call.of = "convert"
    /\ call' = [fn |-> "dbToFloat64", value |-> call.value, out |-> dbToFloat64(call.value)]
    /\ UNCHANGED exporterState

\* queryNamespaceMapping(ch, db, namespace, mapping, queryOverrides) on one
\* namespace of the maps compiled from the catalog.
CallQueryNamespaceMapping ==
    /\ call.fn = "none" /\ call.of = "query"
    /\ \E exporterMap \in makeDescMap(call.pgVersion, call.metricMaps) :
         \E namespace \in DOMAIN exporterMap :
            LET overrides == makeQueryOverrideMap(call.pgVersion, queryOverrides)
            IN  call' = [fn |-> "queryNamespaceMapping", namespace |-> namespace,
                         mapping |-> exporterMap[namespace], overrides |-> overrides,
                         res |-> call.res,
                         out |-> queryNamespaceMapping(namespace, exporterMap[namespace],
                                                       overrides, call.res)]
    /\ UNCHANGED exporterState

\* The conversion makeDescMap compiled for one column of the usage catalog,
\* called on a value.
CallConversion ==
    /\ call.fn = "none" /\ call.of = "convert"
    /\ \E v \in CompileVersions, columnName \in DOMAIN UsageColumns :
         \E exporterMap \in makeDescMap(v, UsageCatalog) :
            LET metricMapping == exporterMap["pg_usage"].columnMappings[columnName]
            IN  call' = [fn |-> "conversion", usage |-> UsageColumns[columnName].usage,
                         discard |-> metricMapping.discard, value |-> call.value,
                         out |-> Convert(metricMapping.conversion, call.value)]
    /\ UNCHANGED exporterState

\* parseVersion(versionString)
CallParseVersion ==
    /\ call.fn = "none" /\ call.of = "parse"
    /\ call' = [fn |-> "parseVersion", versionString |-> call.versionString,
                out |-> parseVersion(call.versionString)]
    /\ UNCHANGED exporterState

\* lookupConfig(name, defaultValue) after flag.Parse() and ini.MapTo(cfg, file).
CallLookupConfig ==
    /\ call.fn = "none" /\ call.of = "lookup"
    /\ call' = [fn |-> "lookupConfig", name |-> call.name, file |-> call.file,
                flags |-> call.flags, defaultValue |-> call.defaultValue,
                out |-> lookupConfig(call.flags, MapTo(call.file), call.name, call.defaultValue)]
    /\ UNCHANGED exporterState

NextCompile ==
    \/ CallLookupConfig
    \/ CallParseVersion
    \/ CallConversion
    \/ CallMakeQueryOverrideMap
    \/ CallMakeDescMap
    \/ CallAddQueries
    \/ CallDbToFloat64
    \/ CallQueryNamespaceMapping

SpecCompile == InitCompile /\ [][NextCompile]_vars

(***************************************************************************)
(* Properties.                                                             *)
(***************************************************************************)
RebuildSteps == {"rebuildMap", "rebuildOverrides", "setVersion", "userQueries", "unlock"}

\* Where a scrape stands once checkMapVersions has returned.
AfterCheck == {"rlock", "settings", "namespaces", "tail", "done"}

ScrapeKinds == {"version", "setting", "ns"}

KindCount(self, kind) == Cardinality({i \in 1..Len(ch[self]) : ch[self][i].kind = kind})

C1_Step ==
    \A p \in Procs :
        /\ (pc[p] = "version" /\ pc'[p] # "version" /\ ~versionErr'[p]) =>
              /\ (pc'[p] = "lock") <=> (semanticVersion'[p] # lastMapVersion \/ metricMap.isNil)
              /\ (pc'[p] # "lock") => (pc'[p] = "emitVersion" /\ ~rebuilt'[p])
        /\ (pc'[p] = "rebuildMap" /\ pc[p] # "rebuildMap") => (pc[p] = "lock" /\ rebuilt'[p])
        /\ (\A q \in Procs : pc[q] \notin RebuildSteps) => UNCHANGED maps

\* C1: a scrape enters the rebuild block exactly when the version it resolved
\* differs from lastMapVersion or no metric map exists yet; a scrape that
\* resolves lastMapVersion while a map exists goes straight on to the version
\* sample, and outside the rebuild block metricMap, queryOverrides and
\* lastMapVersion never change.
C1_RebuildOnlyOnChange == [][C1_Step]_vars

C1_Witness ==
    \E p \in Procs :
        /\ pc[p] = "emitVersion" /\ ~rebuilt[p] /\ totalScrapes = 2
        /\ semanticVersion[p] = lastMapVersion /\ ~metricMap.isNil

\* A compiled namespace entry is the compilation of mappings at version v:
\* its label list is the LABEL columns in some order, its columns are the
\* declared columns compiled for v.
NsCompiledFrom(entry, ns, mappings, v) ==
    /\ Len(entry.labels) = Cardinality(LabelColumns(mappings))
    /\ {entry.labels[i] : i \in 1..Len(entry.labels)} = LabelColumns(mappings)
    /\ entry.columnMappings =
          [c \in DOMAIN mappings |-> compileColumn(ns, c, mappings[c], entry.labels, v)]

\* m and o are the catalog compiled at version v with the user namespaces of
\* extra laid over it.
PairCompiledFrom(m, o, v, extra) ==
    LET base   == IF disableDefaultMetrics THEN <<>> ELSE builtinMetricMaps
        baseO  == IF disableDefaultMetrics THEN <<>> ELSE queryOverrides
        userNs == {k \in DOMAIN extra : Len(extra[k].metrics) > 0}
        userQ  == {k \in DOMAIN extra : extra[k].hasQuery}
    IN  /\ DOMAIN m = (DOMAIN base) \cup userNs
        /\ \A ns \in DOMAIN m :
              NsCompiledFrom(m[ns], ns,
                             IF ns \in userNs THEN UserColumns(extra[ns]) ELSE base[ns], v)
        /\ DOMAIN o = (DOMAIN baseO) \cup userQ
        /\ \A ns \in DOMAIN o :
              IF ns \in userQ THEN o[ns] = extra[ns].query
              ELSE \/ \E i \in 1..Len(baseO[ns]) :
                        /\ RangeAccepts(baseO[ns][i].versionRange, v)
                        /\ o[ns] = baseO[ns][i].query
                   \/ /\ o[ns] = ""
                      /\ \A i \in 1..Len(baseO[ns]) : ~RangeAccepts(baseO[ns][i].versionRange, v)

\* The documents addQueries merges.
ValidDocs ==
    {d \in UserDocs :
        /\ d.readable /\ d.yamlOk
        /\ \A n \in DOMAIN d.extra : ~AssertionPanics(d.extra[n]) /\ ~UsageErrors(d.extra[n])}

\* C2: whenever the exclusive lock is free, metricMap and queryOverrides are
\* both nil or both compiled from lastMapVersion, and a scrape whose version
\* check succeeded finds lastMapVersion equal to the version it resolved.
C2_MapsMatchVersion ==
    mappingMtx.writer = 0 =>
        /\ metricMap.isNil = queryOverrides_.isNil
        /\ ~metricMap.isNil =>
              \E extra \in {<<>>} \cup (IF userQueriesPath = "" THEN {}
                                        ELSE {d.extra : d \in ValidDocs}) :
                  PairCompiledFrom(metricMap.m, queryOverrides_.m, lastMapVersion, extra)
        /\ \A p \in Procs :
              (pc[p] \in AfterCheck /\ db[p] # 0 /\ ~versionErr[p]) =>
                  (lastMapVersion = semanticVersion[p] /\ ~metricMap.isNil)

C2_Witness ==
    \E p \in Procs :
        /\ pc[p] = "done" /\ rebuilt[p] /\ totalScrapes = 2
        /\ lastMapVersion = <<10, 0, 0>> /\ mappingMtx.writer = 0
        /\ "pg_stat_activity" \in DOMAIN queryOverrides_.m
        /\ queryOverrides_.m["pg_stat_activity"] = "Q_activity_92"

C3_Inv ==
    \A p \in Procs :
        (pc[p] \in {"tail", "done"} /\ db[p] = 0) =>
            /\ psqlUp = 0 /\ error = 1
            /\ ~rebuilt[p] /\ versionString[p] = ""
            /\ \A i \in 1..Len(ch[p]) : ch[p][i].kind \notin ScrapeKinds

C3_Step ==
    \A p \in Procs :
        pc[p] = "getDB" =>
            /\ UNCHANGED maps
            /\ db'[p] = 0 => pc'[p] \in {"getDB", "tail"}
            /\ pc'[p] = "version" => db'[p] # 0

\* C3: a scrape whose getDB fails has the up gauge at 0 and the error gauge at
\* 1, runs no version check, sends no version, settings or namespace sample,
\* leaves metricMap, queryOverrides and lastMapVersion alone and hands over to
\* Collect's tail.
C3_ConnectionFailure == []C3_Inv /\ [][C3_Step]_vars

C3_Witness ==
    \E p \in Procs : pc[p] = "done" /\ db[p] = 0 /\ ~metricMap.isNil /\ totalScrapes = 2

HealthKinds == << "duration", "totalScrapes", "error", "psqlUp" >>

\* The four health samples follow, in Collect's order, every sample of the
\* scrape, with only load-error series after them.
HealthSent(self) ==
    \E at \in 1..Len(ch[self]) :
        /\ at + 3 <= Len(ch[self])
        /\ \A i \in 1..4 : ch[self][at + i - 1].kind = HealthKinds[i]
        /\ \A i \in 1..(at - 1) : ch[self][i].kind \in ScrapeKinds
        /\ \A i \in (at + 4)..Len(ch[self]) : ch[self][i].kind = "userQueriesError"
        /\ ch[self][at + 1].value = F(100 * totalScrapes)

\* C4: every Collect call that has ended, by returning or by a panic, has sent
\* the four health samples after the samples of its scrape.
C4_HealthOnEveryPath ==
    \A p \in Procs : pc[p] \in {"done", "panicked"} => HealthSent(p)

C5_Inv ==
    \A p \in Procs :
        (versionErr[p] /\ pc[p] \in AfterCheck) =>
            /\ ~rebuilt[p]
            /\ pc[p] \in {"tail", "done"} => DOMAIN runs[p] = DOMAIN metricMap.m
            /\ metricMap.isNil => KindCount(p, "ns") = 0

C5_Step ==
    \A p \in Procs :
        /\ (pc[p] = "version" /\ versionErr'[p]) => pc'[p] = "rlock"
        /\ versionErr[p] => UNCHANGED maps

\* C5: a scrape whose version query or parse fails goes on to the settings and
\* namespace stage, never rebuilds, leaves metricMap, queryOverrides and
\* lastMapVersion alone, visits every namespace of the map it found, and sends
\* no namespace sample when no map exists yet.
C5_VersionFailureKeepsMaps == []C5_Inv /\ [][C5_Step]_vars

C5_Witness ==
    \E p \in Procs :
        /\ pc[p] = "done" /\ versionErr[p] /\ ~metricMap.isNil
        /\ KindCount(p, "ns") > 0 /\ DOMAIN runs[p] = DOMAIN metricMap.m

\* C6 as claimed: every scrape that obtained a connection has sent exactly one
\* version sample by the time Collect returns.
C6_VersionSampleAlways ==
    \A p \in Procs : (pc[p] = "done" /\ db[p] # 0) => KindCount(p, "version") = 1

\* C6 amended: once checkMapVersions has returned, a scrape has sent exactly
\* one version sample, carrying the banner and the resolved short version, if
\* its version check succeeded (rebuild or not) and none if it failed; before
\* that, and without a connection, it has sent none.
C6_VersionSampleOnSuccess ==
    \A p \in Procs :
        IF pc[p] \in AfterCheck /\ db[p] # 0 /\ ~versionErr[p]
        THEN /\ KindCount(p, "version") = 1
             /\ \A i \in 1..Len(ch[p]) :
                   ch[p][i].kind = "version" =>
                       ch[p][i].labels = << versionString[p], VersionString(semanticVersion[p]) >>
        ELSE KindCount(p, "version") = 0

C6_Witness ==
    \E p \in Procs :
        /\ pc[p] = "done" /\ db[p] # 0 /\ ~versionErr[p] /\ ~rebuilt[p]
        /\ KindCount(p, "version") = 1

\* The answer made the namespace call fail.
AnswerFails(res) == res.err # "none" \/ res.scanFailAt \in 1..Len(res.rows)

Disabled(ns) == ns \in DOMAIN queryOverrides_.m /\ queryOverrides_.m[ns] = ""

\* C7: when the namespace loop has ended, every namespace of the metric map
\* has been visited and, unless disabled, has had its statement run; those
\* whose statement, column list or row scan failed are exactly the keys of
\* namespaceErrors, and the error gauge is 1 if there is any.
C7_NamespaceFailureIsolated ==
    \A p \in Procs :
        (pc[p] \in {"tail", "done"} /\ db[p] # 0) =>
            /\ DOMAIN runs[p] = DOMAIN metricMap.m
            /\ \A ns \in DOMAIN runs[p] : ~Disabled(ns) => runs[p][ns].stmt # ""
            /\ namespaceErrors[p] =
                  {ns \in DOMAIN runs[p] : runs[p][ns].stmt # "" /\ AnswerFails(runs[p][ns].res)}
            /\ namespaceErrors[p] # {} => error = 1

C7_Witness ==
    \E p \in Procs :
        /\ pc[p] = "done"
        /\ \E bad \in namespaceErrors[p], good \in DOMAIN runs[p] \ namespaceErrors[p] :
              /\ runs[p][good].to >= runs[p][good].from
              /\ runs[p][good].from > runs[p][bad].to

\* C8: a namespace recorded in namespaceErrors has no sample on the channel.
C8_FailedNamespaceSendsNothing ==
    \A p \in Procs :
        \A ns \in namespaceErrors[p] :
            \A i \in 1..Len(ch[p]) : ~(ch[p][i].kind = "ns" /\ ch[p][i].ns = ns)

\* The cells of an answer whose column is not compiled as discard, split by
\* whether dbToFloat64 accepts the value.
LiveCells(ns, res, ok) ==
    {c \in (1..Len(res.rows)) \X (1..Len(res.columnNames)) :
        /\ ~(/\ res.columnNames[c[2]] \in DOMAIN metricMap.m[ns].columnMappings
             /\ metricMap.m[ns].columnMappings[res.columnNames[c[2]]].discard)
        /\ dbToFloat64(res.rows[c[1]][c[2]]).ok = ok}

\* C9: a namespace call that ends without a fatal error has sent one sample
\* for every convertible value of a non-discard column, whatever failed to
\* convert before it, has returned one non-fatal error per value that did not
\* convert, and is not in namespaceErrors; a scrape with no other failure
\* leaves the error gauge at 0.
C9_ConversionFailureSkipsOneSample ==
    \A p \in Procs :
        /\ \A ns \in DOMAIN runs[p] :
              LET run == runs[p][ns]
              IN  (run.stmt # "" /\ run.fatal = "") =>
                      /\ Len(run.nonfatalErrors) = Cardinality(LiveCells(ns, run.res, FALSE))
                      /\ run.to - run.from + 1 = Cardinality(LiveCells(ns, run.res, TRUE))
                      /\ \A i \in run.from..run.to : ch[p][i].kind = "ns" /\ ch[p][i].ns = ns
                      /\ ns \notin namespaceErrors[p]
        /\ (/\ pc[p] \in {"tail", "done"} /\ db[p] # 0 /\ ~versionErr[p]
            /\ KindCount(p, "setting") = 1
            /\ \A ns \in DOMAIN runs[p] : runs[p][ns].fatal = "") => error = 0

C9_Witness ==
    \E p \in Procs :
        /\ pc[p] = "done" /\ error = 0
        /\ \E ns \in DOMAIN runs[p] :
              /\ runs[p][ns].fatal = ""
              /\ Len(runs[p][ns].nonfatalErrors) >= 1
              /\ runs[p][ns].to - runs[p][ns].from + 1 >= 4

\* C10: the statement of every visited namespace is set by its queryOverrides
\* entry: an empty entry runs nothing and yields no sample and no error, a
\* non-empty entry runs that text, no entry runs the select on the namespace.
C10_StatementFollowsOverride ==
    \A p \in Procs :
        \A ns \in DOMAIN runs[p] :
            LET run == runs[p][ns]
                o   == queryOverrides_.m
            IN  /\ (ns \in DOMAIN o /\ o[ns] = "") =>
                      /\ run.stmt = "" /\ run.fatal = "" /\ run.nonfatalErrors = <<>>
                      /\ run.to < run.from
                /\ (ns \in DOMAIN o /\ o[ns] # "") => run.stmt = o[ns]
                /\ ns \notin DOMAIN o => run.stmt = "SELECT * FROM " \o ns \o ";"

C10_Witness ==
    \E p \in Procs :
        /\ pc[p] = "done"
        /\ \E a, b, c \in DOMAIN runs[p] :
              /\ runs[p][a].stmt = ""
              /\ runs[p][b].stmt = "Q_replication_91"
              /\ runs[p][c].stmt = "SELECT * FROM pg_stat_database;"

\* The candidates of an override list whose range accepts v.
Accepting(overrideDef, v) ==
    {i \in 1..Len(overrideDef) : RangeAccepts(overrideDef[i].versionRange, v)}

\* C11: makeQueryOverrideMap yields an entry for exactly the namespaces that
\* have a candidate list: the query of the candidate that accepts the version
\* when exactly one does, the empty text when none does.
C11_OverridePerNamespace ==
    call.fn = "makeQueryOverrideMap" =>
        /\ DOMAIN call.out = DOMAIN call.overrides
        /\ \A name \in DOMAIN call.overrides :
              LET hits == Accepting(call.overrides[name], call.pgVersion)
              IN  /\ Cardinality(hits) = 1 =>
                        \A i \in hits : call.out[name] = call.overrides[name][i].query
                  /\ hits = {} => call.out[name] = ""

C11_Witness ==
    /\ call.fn = "makeQueryOverrideMap"
    /\ call.pgVersion = <<9, 6, 2>>
    /\ DOMAIN call.out = {"pg_stat_replication", "pg_old"}
    /\ call.out["pg_old"] = ""
    /\ call.out["pg_stat_replication"] = "Q_replication_92"

\* C12: a compiled namespace has an entry for every declared column, and a
\* column whose supportedVersions rejects the version is compiled as discard
\* whatever its usage.
C12_RejectedColumnsDiscarded ==
    call.fn = "makeDescMap" =>
        /\ DOMAIN call.out = DOMAIN call.metricMaps
        /\ \A ns \in DOMAIN call.metricMaps :
              /\ DOMAIN call.out[ns].columnMappings = DOMAIN call.metricMaps[ns]
              /\ \A c \in DOMAIN call.metricMaps[ns] :
                    LET cm == call.metricMaps[ns][c]
                    IN  (cm.supportedVersions # "nil"
                         /\ ~RangeAccepts(cm.supportedVersions, call.pgVersion))
                            => call.out[ns].columnMappings[c].discard

C12_Witness ==
    /\ call.fn = "makeDescMap"
    /\ call.pgVersion = <<9, 6, 2>>
    /\ "pg_usage" \in DOMAIN call.out
    /\ \A c \in {"c10", "g10", "m10", "t10", "l10", "d10"} :
          call.out["pg_usage"].columnMappings[c].discard
    /\ \A c \in {"c", "g", "m", "t"} : ~call.out["pg_usage"].columnMappings[c].discard

\* C13: two compilations of one catalog at one version have the same
\* namespaces, the same ordered label list per namespace and the same discard
\* flag per column.
C13_CompileDeterministic ==
    call.fn = "makeDescMap" =>
        /\ DOMAIN call.out = DOMAIN call.again
        /\ \A ns \in DOMAIN call.out :
              /\ call.out[ns].labels = call.again[ns].labels
              /\ DOMAIN call.out[ns].columnMappings = DOMAIN call.again[ns].columnMappings
              /\ \A c \in DOMAIN call.out[ns].columnMappings :
                    call.out[ns].columnMappings[c].discard
                        = call.again[ns].columnMappings[c].discard

\* The namespaces a document declares columns for, and those it gives a
\* query.
Declared(extra) == {k \in DOMAIN extra : Len(extra[k].metrics) > 0}
WithQuery(extra) == {k \in DOMAIN extra : extra[k].hasQuery}

\* C14: addQueries returns an error for a document that does not parse and
\* for one with an unknown usage text, and when it returns an error both maps
\* are as they were passed.
C14_MergeAtomicOnError ==
    call.fn = "addQueries" =>
        /\ ~call.content.yamlOk => call.out.outcome = "err"
        /\ (/\ call.content.yamlOk
            /\ \E n \in DOMAIN call.content.extra :
                  \E i \in 1..Len(call.content.extra[n].metrics) :
                      call.content.extra[n].metrics[i].usage \notin ColumnUsages)
              => call.out.outcome # "ok"
        /\ call.out.outcome = "err" =>
              /\ call.out.exporterMap = call.exporterMap
              /\ call.out.queryOverrideMap = call.queryOverrideMap

C14_Witness ==
    /\ call.fn = "addQueries"
    /\ call.content = DocHalfBogus
    /\ call.out.outcome = "err"
    /\ "pg_custom" \notin DOMAIN call.out.exporterMap
    /\ "pg_custom" \notin DOMAIN call.out.queryOverrideMap

\* C15: after a merge that succeeded, a namespace the document declares
\* columns for holds the compilation of those columns alone, and every other
\* namespace holds the entry it had.
C15_DeclaredNamespacesReplaced ==
    (call.fn = "addQueries" /\ call.out.outcome = "ok") =>
        LET extra == call.content.extra
        IN  /\ DOMAIN call.out.exporterMap = (DOMAIN call.exporterMap) \cup Declared(extra)
            /\ \A ns \in Declared(extra) :
                  /\ DOMAIN call.out.exporterMap[ns].columnMappings =
                        {extra[ns].metrics[i].name : i \in 1..Len(extra[ns].metrics)}
                  /\ NsCompiledFrom(call.out.exporterMap[ns], ns, UserColumns(extra[ns]),
                                    call.pgVersion)
            /\ \A ns \in (DOMAIN call.exporterMap) \ Declared(extra) :
                  call.out.exporterMap[ns] = call.exporterMap[ns]

C15_Witness ==
    /\ call.fn = "addQueries" /\ call.out.outcome = "ok"
    /\ call.content = DocTwo
    /\ "pg_stat_activity" \in DOMAIN call.exporterMap
    /\ "datname" \in DOMAIN call.exporterMap["pg_stat_activity"].columnMappings
    /\ DOMAIN call.out.exporterMap["pg_stat_activity"].columnMappings = {"usename", "count"}
    /\ call.out.exporterMap["pg_stat_activity"].labels = << "usename" >>
    /\ call.out.exporterMap["pg_stat_database"] = call.exporterMap["pg_stat_database"]

\* C16: after a merge that succeeded, a namespace the document gives a query
\* has that text as its override, empty or not, and every other override is
\* as it was.
C16_QueriesReplaceOverrides ==
    (call.fn = "addQueries" /\ call.out.outcome = "ok") =>
        LET extra == call.content.extra
        IN  /\ DOMAIN call.out.queryOverrideMap =
                  (DOMAIN call.queryOverrideMap) \cup WithQuery(extra)
            /\ \A ns \in WithQuery(extra) : call.out.queryOverrideMap[ns] = extra[ns].query
            /\ \A ns \in (DOMAIN call.queryOverrideMap) \ WithQuery(extra) :
                  call.out.queryOverrideMap[ns] = call.queryOverrideMap[ns]

C16_Witness ==
    /\ call.fn = "addQueries" /\ call.out.outcome = "ok"
    /\ call.content = DocQueryOnly
    /\ "pg_stat_activity" \in DOMAIN call.queryOverrideMap
    /\ call.queryOverrideMap["pg_stat_activity"] = ""
    /\ call.out.queryOverrideMap["pg_stat_activity"] = "Q_user_activity"
    /\ call.out.queryOverrideMap["pg_stat_replication"] = call.queryOverrideMap["pg_stat_replication"]

\* C17: with a user document configured, a Collect call that ends after a
\* rebuild has sent exactly one load-status sample: the only series of the
\* vector, labelled with the file name and the fingerprint of the last load.
C17_Inv ==
    \A p \in Procs :
        (pc[p] \in {"done", "panicked"} /\ userQueriesPath # "" /\ ~metricMap.isNil) =>
            /\ KindCount(p, "userQueriesError") = 1
            /\ Cardinality(DOMAIN userQueriesError) = 1
            /\ \A i \in 1..Len(ch[p]) :
                  ch[p][i].kind = "userQueriesError" =>
                      \E h \in DOMAIN userQueriesError :
                          /\ ch[p][i].labels = << userQueriesPath, h >>
                          /\ ch[p][i].value = F(100 * userQueriesError[h])

C17_Step ==
    \A p \in Procs :
        (pc[p] = "userQueries" /\ pc'[p] # "userQueries" /\ userQueriesPath # "") =>
            \E content \in UserDocs :
                /\ DOMAIN userQueriesError' = {content.hashsum}
                /\ userQueriesError'[content.hashsum] =
                      (IF content \in ValidDocs THEN 0 ELSE 1)
                /\ content \in ValidDocs <=> (metricMap' # metricMap)

C17_LoadStatusSample == []C17_Inv /\ [][C17_Step]_vars

\* C18: no Collect call ends in a panic.
C18_NoFailureEscapes == \A p \in Procs : pc[p] # "panicked"

C19_Inv ==
    /\ openConns = (IF dbConnection = 0 THEN {} ELSE {dbConnection})
    /\ Cardinality(openConns) <= 1
    /\ openConns \cap closedConns = {}

C19_Step ==
    /\ (dbConnection' \notin {0, dbConnection}) =>
          (dbConnection = 0 /\ dbConnection' \notin openConns \cup closedConns)
    /\ (dbConnection # 0 /\ dbConnection' # dbConnection) =>
          (dbConnection \in closedConns' /\ dbConnection \notin openConns')

\* C19: the exporter holds at most one open handle, the one in dbConnection;
\* a handle is opened only when none is held, and a held handle is closed in
\* the step that drops it.
C19_OneConnection == []C19_Inv /\ [][C19_Step]_vars

C19_Witness ==
    /\ totalScrapes = 2 /\ dbConnection = 2
    /\ openConns = {2} /\ closedConns = {1}

C20_Inv ==
    \A p \in Procs :
        (pc[p] \notin {"idle", "getDB"} /\ db[p] # 0) =>
            (db[p] = dbConnection /\ db[p] \in openConns /\ db[p] \notin closedConns)

C20_Step ==
    \A p \in Procs :
        (pc[p] = "getDB" /\ pc'[p] # "getDB") =>
            IF db'[p] = 0
            THEN /\ dbConnection' = 0 /\ psqlUp' = 0 /\ openConns' = {}
                 /\ dbConnection # 0 => dbConnection \in closedConns'
                 /\ pc'[p] = "tail"
            ELSE /\ psqlUp' = 1 /\ dbConnection' = db'[p]
                 /\ db'[p] \notin closedConns'
                 /\ dbConnection # 0 => db'[p] = dbConnection
                 /\ pc'[p] = "version"

\* C20: a scrape goes on only with a handle that answered the probe; a failed
\* probe closes the handle, clears dbConnection and sets psqlUp to 0, and the
\* scrape after it works on a handle that was never closed, with psqlUp 1.
C20_ProbeAndReconnect == []C20_Inv /\ [][C20_Step]_vars

C20_Witness ==
    \E p \in Procs :
        /\ pc[p] = "version" /\ totalScrapes = 2
        /\ closedConns = {1} /\ db[p] = 2 /\ dbConnection = 2 /\ psqlUp = 1

(***************************************************************************)
(* Two callers at once.                                                    *)
(***************************************************************************)
\* A step of p that evaluates the rebuild condition of checkMapVersions, and
\* so reads e.lastMapVersion and e.metricMap.
ReadsRebuildCondition(p) == pc[p] = "version" /\ pc'[p] \in {"lock", "emitVersion"}

\* The steps in which scrape reads e.metricMap and e.queryOverrides to run
\* the statements.
QuerySteps == {"settings", "namespaces"}

C21_Step ==
    /\ \A p \in Procs :
          /\ ReadsRebuildCondition(p) =>
                /\ mappingMtx.writer = p \/ p \in mappingMtx.readers
                /\ \A q \in Procs \ {p} : mappingMtx.writer # q
          /\ pc[p] \in QuerySteps => p \in mappingMtx.readers /\ mappingMtx.writer = 0
          /\ pc[p] \in RebuildSteps => mappingMtx.writer = p /\ mappingMtx.readers = {}
    /\ maps' # maps => \E p \in Procs : pc[p] \in RebuildSteps /\ pc'[p] # pc[p]

\* C21: every step that reads or writes metricMap, queryOverrides or
\* lastMapVersion is taken by a caller that holds mappingMtx: the writes of
\* the rebuild as the writer with no reader, the reads of the statements as
\* a reader with no writer, and the read of the rebuild condition under the
\* lock and never while another caller is the writer.
C21_MapsUnderLock == [][C21_Step]_vars

\* The steps of getDB after its first look at e.dbConnection.
InGetDB == {"open", "ping"}

\* The steps in which scrape works on the handle getDB returned.
UsesHandle ==
    {"version", "lock", "rebuildMap", "rebuildOverrides", "setVersion", "userQueries",
     "unlock", "emitVersion", "rlock", "settings", "namespaces"}

\* C22: no two callers are inside getDB at once; every open handle is the
\* one the exporter holds, none was overwritten by another open; and the
\* handle a scrape works on has not been closed.
C22_ConnectionExclusive ==
    /\ \A p, q \in Procs : (p # q /\ pc[p] \in InGetDB) => pc[q] \notin InGetDB
    /\ openConns \subseteq {dbConnection}
    /\ \A p \in Procs : pc[p] \in UsesHandle => db[p] \notin closedConns

\* C23: a caller that waits for the exclusive lock to rebuild does not wait
\* for a caller that holds the shared lock while it runs its statements on
\* the database.
C23_RebuildNeverWaitsForQueries ==
    \A p \in Procs :
        pc[p] = "lock" =>
            \A q \in mappingMtx.readers : pc[q] \notin QuerySteps

\* The order of the steps of one Collect.
StepOrder ==
    << "idle", "getDB", "version", "lock", "rebuildMap", "rebuildOverrides", "setVersion",
       "userQueries", "unlock", "emitVersion", "rlock", "settings", "namespaces", "tail",
       "done", "panicked" >>

Rank(label) == CHOOSE n \in 1..Len(StepOrder) : StepOrder[n] = label

C24_Step ==
    \A p \in Procs :
        /\ pc'[p] # pc[p] =>
              \/ Rank(pc'[p]) > Rank(pc[p])
              \/ pc[p] = "done" /\ pc'[p] = "idle"
        /\ pc[p] = "getDB" => pc'[p] \in {"version", "tail"}
        /\ pc[p] = "version" => pc'[p] \in {"lock", "emitVersion", "rlock"}
        /\ (pc[p] = "namespaces" /\ pc'[p] = "namespaces") =>
              \E namespace \in todo[p] \ DOMAIN runs[p] :
                 /\ DOMAIN runs'[p] = DOMAIN runs[p] \cup {namespace}
                 /\ todo'[p] = todo[p] \ {namespace}
                 /\ \A ns \in DOMAIN runs[p] : runs'[p][ns] = runs[p][ns]

\* C24: a Collect moves through its steps in one direction: the step that
\* acquires the connection and the step that queries the version are each
\* left by the one action taken in them, failed or not, and are entered
\* again only by the next Collect; every turn of the namespace loop runs the
\* statement of a namespace that has not been run in this scrape and takes
\* it off the namespaces still to visit, failed or not.
C24_NoRetry == [][C24_Step]_vars

C24_Witness ==
    \E p \in Procs :
        /\ pc[p] = "done" /\ versionErr[p] /\ namespaceErrors[p] # {}
        /\ \A ns \in namespaceErrors[p] : ns \in DOMAIN runs[p] /\ runs[p][ns].fatal # ""

(***************************************************************************)
(* Row conversion: direct calls of queryNamespaceMapping and dbToFloat64.  *)
(***************************************************************************)
\* The rows the rows.Next() loop handled before it ended or a scan failed.
ScannedRows(res) ==
    IF res.err # "none" THEN <<>>
    ELSE IF res.scanFailAt \in 1..Len(res.rows)
         THEN SubSeq(res.rows, 1, res.scanFailAt - 1)
         ELSE res.rows

\* The samples a call sent for one column, in the order sent.
SamplesOf(samples, columnName) == SelectSeq(samples, LAMBDA m : m.column = columnName)

\* The positions of the returned columns that are compiled (known) or not.
KnownAt(mapping, res) ==
    {i \in 1..Len(res.columnNames) : res.columnNames[i] \in DOMAIN mapping.columnMappings}

UnknownAt(mapping, res) == (1..Len(res.columnNames)) \ KnownAt(mapping, res)

\* The labels of a sample are those read from a row: one value per label
\* column, the text of the row's value for every label column returned.
LabelsOfRow(mapping, res, row, labels) ==
    /\ Len(labels) = Len(mapping.labels)
    /\ \A idx \in 1..Len(labels) :
          \A i \in 1..Len(res.columnNames) :
             (res.columnNames[i] = mapping.labels[idx]) => labels[idx] = dbToString(row[i]).str

\* A queryNamespaceMapping call that ran a statement.
QueryCalled == call.fn = "queryNamespaceMapping" /\ call.out.stmt # ""

\* C25: for every returned known non-discard column, the samples sent for it
\* are one per scanned row whose value the column's conversion accepts, each
\* with the column's descriptor and value type and labels read from a row; a
\* null value of such a column is sent as a not-a-number sample and is no
\* non-fatal error; a discard column has no sample and no non-fatal error.
C25_OneSamplePerConvertedValue ==
    QueryCalled =>
        LET mapping == call.mapping
            res     == call.res
            rows    == ScannedRows(res)
        IN  \A i \in KnownAt(mapping, res) :
               LET columnName == res.columnNames[i]
                   metricMapping == mapping.columnMappings[columnName]
                   sent == SamplesOf(call.out.samples, columnName)
                   errs == SelectSeq(call.out.nonfatalErrors,
                                     LAMBDA e : e = <<call.namespace, columnName>>)
               IN  IF metricMapping.discard
                   THEN sent = <<>> /\ errs = <<>>
                   ELSE /\ Len(sent) = Len(SelectSeq(rows,
                                LAMBDA row : Convert(metricMapping.conversion, row[i]).ok))
                        /\ \A n \in 1..Len(sent) :
                              /\ sent[n].desc = metricMapping.desc
                              /\ sent[n].vtype = metricMapping.vtype
                              /\ \E k \in 1..Len(rows) :
                                    LabelsOfRow(mapping, res, rows[k], sent[n].labels)
                        /\ Len(SelectSeq(sent, LAMBDA m : m.value = NaN))
                              >= Len(SelectSeq(rows, LAMBDA row : row[i] = Null))
                        /\ (call.out.fatal = "" /\ \A k \in 1..Len(rows) : rows[k][i] = Null)
                              => errs = <<>>

\* C26: the values sent for a returned known non-discard column are, in row
\* order, the results of the column's compiled conversion on the scanned
\* rows whose value it accepts: the number for Counter and Gauge, the mapped
\* number for MappedMetric, the milliseconds for Duration.
C26_ValueIsCompiledConversion ==
    QueryCalled =>
        LET mapping == call.mapping
            res     == call.res
            rows    == ScannedRows(res)
        IN  \A i \in KnownAt(mapping, res) :
               LET columnName == res.columnNames[i]
                   metricMapping == mapping.columnMappings[columnName]
                   sent == SamplesOf(call.out.samples, columnName)
                   accepted == SelectSeq(rows,
                                  LAMBDA row : Convert(metricMapping.conversion, row[i]).ok)
               IN  ~metricMapping.discard =>
                      /\ Len(sent) = Len(accepted)
                      /\ \A n \in 1..Len(sent) :
                            n <= Len(accepted) =>
                               sent[n].value = Convert(metricMapping.conversion, accepted[n][i]).f

\* C27: for every returned column that is not compiled, the samples sent for
\* it are, in row order, one per scanned row whose value dbToFloat64
\* accepts: untyped, named {namespace}_{column}, with that value and the
\* labels read from that row; a call that ends without a fatal error returns
\* one non-fatal error per scanned row whose value dbToFloat64 rejects; the
\* call is fatal only when the query, the column list or a row scan failed.
C27_UnknownColumnsUntyped ==
    QueryCalled =>
        LET mapping == call.mapping
            res     == call.res
            rows    == ScannedRows(res)
        IN  /\ call.out.fatal # "" => AnswerFails(res)
            /\ \A i \in UnknownAt(mapping, res) :
                  LET columnName == res.columnNames[i]
                      sent == SamplesOf(call.out.samples, columnName)
                      errs == SelectSeq(call.out.nonfatalErrors,
                                        LAMBDA e : e = <<call.namespace, columnName>>)
                      accepted == SelectSeq(rows, LAMBDA row : dbToFloat64(row[i]).ok)
                      rejected == SelectSeq(rows, LAMBDA row : ~dbToFloat64(row[i]).ok)
                  IN  /\ Len(sent) = Len(accepted)
                      /\ \A n \in 1..Len(accepted) :
                            /\ sent[n].desc = NewDesc(call.namespace \o "_" \o columnName,
                                                      mapping.labels)
                            /\ sent[n].vtype = "Untyped"
                            /\ sent[n].value = dbToFloat64(accepted[n][i]).f
                            /\ LabelsOfRow(mapping, res, accepted[n], sent[n].labels)
                      /\ call.out.fatal = "" => Len(errs) = Len(rejected)

C27_Witness ==
    /\ QueryCalled /\ call.namespace = "pg_usage" /\ call.out.fatal = ""
    /\ Len(SamplesOf(call.out.samples, "extra")) = 1
    /\ SamplesOf(call.out.samples, "extra")[1].value = F(314)
    /\ SamplesOf(call.out.samples, "extra")[1].vtype = "Untyped"
    /\ <<"pg_usage", "extra">> \in {call.out.nonfatalErrors[n] : n \in DOMAIN call.out.nonfatalErrors}

\* C28: the i-th label value of every sample of a namespace call is, for
\* some scanned row, the text of the row's value in the column named by the
\* i-th label column, and the empty text when the row has no such column.
C28_LabelsFromNamedColumns ==
    QueryCalled =>
        LET mapping == call.mapping
            res     == call.res
            rows    == ScannedRows(res)
        IN  \A n \in 1..Len(call.out.samples) :
               \E k \in 1..Len(rows) :
                  /\ Len(call.out.samples[n].labels) = Len(mapping.labels)
                  /\ \A idx \in 1..Len(mapping.labels) :
                        LET at == {i \in 1..Len(res.columnNames) :
                                      res.columnNames[i] = mapping.labels[idx]}
                        IN  call.out.samples[n].labels[idx] =
                               IF at = {} THEN ""
                               ELSE dbToString(rows[k][CHOOSE i \in at : TRUE]).str

C29_Inv ==
    \A p \in Procs :
        entryPoint[p] = "Describe" =>
            /\ Len(descs[p]) <= Len(ch[p])
            /\ \A n \in 1..Len(descs[p]) :
                  /\ descs[p][n] = ch[p][n].desc
                  /\ DOMAIN descs[p][n] = {"fqName", "variableLabels"}

C29_Step ==
    /\ totalScrapes' # totalScrapes =>
          /\ totalScrapes' = totalScrapes + 1
          /\ \E p \in Procs : pc[p] = "idle" /\ pc'[p] = "getDB"
    /\ \A p \in Procs :
          /\ (pc[p] = "idle" /\ pc'[p] # "idle") => totalScrapes' = totalScrapes + 1
          /\ (pc[p] # "idle" /\ pc'[p] # "idle") => totalScrapes' = totalScrapes
          /\ (entryPoint[p] = "Describe" /\ pc[p] # "idle" /\ pc'[p] = "idle") =>
                /\ pc[p] = "done"
                /\ HealthSent(p)
                /\ descs[p] = Descs(ch[p])

C29_Returns == (\E p \in {1} : pc[p] = "tail") ~> (\A p \in {1} : pc[p] = "idle")

\* C29: a Describe call begins one scrape and no second one before it
\* returns; what it has forwarded is at every moment the descriptors, and
\* nothing but the descriptors, of the first samples its Collect has sent, in
\* their order; it returns only from the end of Collect, after the
\* exporter's own samples, with the descriptor of every sample forwarded;
\* and once scrape has returned, Describe returns.
C29_DescribeForwardsDescriptors == []C29_Inv /\ [][C29_Step]_vars /\ C29_Returns

C29_Witness ==
    \E p \in Procs :
        /\ entryPoint[p] = "Describe" /\ pc[p] = "done"
        /\ descs[p] = Descs(ch[p])
        /\ \E n \in 1..Len(ch[p]) : ch[p][n].kind = "ns"
        /\ \E n \in 1..Len(ch[p]) : ch[p][n].kind = "psqlUp"

(***************************************************************************)
(* The compiled conversions, called directly.                              *)
(***************************************************************************)
\* C31: the conversion compiled for a Duration column answers the text "-1"
\* with not-a-number and failure and logs no error; it answers a value that
\* is not text, and a text that is no duration, with not-a-number and
\* failure; it answers a duration text with success and the whole
\* milliseconds of the duration, the rest cut off.  The conversion compiled
\* for a Discard or Label column, and for any column compiled as discard,
\* answers every value with not-a-number and success.
C31_DurationAndDiscardConversions ==
    call.fn = "conversion" =>
        LET in == call.value
            r  == call.out
        IN  /\ (call.discard \/ call.usage \in {"DISCARD", "LABEL"}) =>
                  r.f = NaN /\ r.ok
            /\ (call.usage = "DURATION" /\ ~call.discard) =>
                  /\ (in.t \in {"bytes", "string"} /\ in.s = "-1") =>
                        r.f = NaN /\ ~r.ok /\ ~r.logged
                  /\ in.t \notin {"bytes", "string"} => r.f = NaN /\ ~r.ok
                  /\ (in.t \in {"bytes", "string"} /\ in.s \in {"", "5", "abc", "idle", "3.14"}) =>
                        r.f = NaN /\ ~r.ok
                  /\ (in.t \in {"bytes", "string"} /\ in.s = "1h") => r.ok /\ r.f = F(360000000)
                  /\ (in.t \in {"bytes", "string"} /\ in.s = "250ms") => r.ok /\ r.f = F(25000)
                  /\ (in.t \in {"bytes", "string"} /\ in.s = "1500us") => r.ok /\ r.f = F(100)
                  /\ (in.t \in {"bytes", "string"} /\ in.s = "-1500us") => r.ok /\ r.f = F(-100)

C31_Witness ==
    /\ call.fn = "conversion" /\ call.usage = "DURATION" /\ ~call.discard
    /\ call.value = Str("-1")
    /\ call.out = [f |-> NaN, ok |-> FALSE, logged |-> FALSE]

(***************************************************************************)
(* parseVersion, called directly.                                          *)
(***************************************************************************)
\* What a banner should parse to: the version, or "error".
ExpectedVersion(b) ==
    CASE b = "PostgreSQL 9.6.2 on x86_64"    -> <<9, 6, 2>>
      [] b = "PostgreSQL 9.6.2.1"            -> <<9, 6, 2>>
      [] b = "PostgreSQL 10.0"               -> <<10, 0, 0>>
      [] b = "psql_13 12.4 (Debian 12.4-1)"  -> <<12, 4, 0>>
      [] b = "PostgreSQL 11"                 -> <<11, 0, 0>>
      [] b = "PostgreSQL 10beta1"            -> <<10, 0, 0>>
      [] b = "EnterpriseDB 0"                -> <<0, 0, 0>>
      [] OTHER                               -> "error"

\* C32: parseVersion answers a banner whose leading word is followed by a
\* number token with the version of that token, its first three numbers,
\* the missing ones read as 0; it answers a banner with no number token
\* after its leading word with an error and the zero version.
C32_ParseVersion ==
    call.fn = "parseVersion" =>
        IF call.versionString \in
              {"9.6.2 PostgreSQL", "PostgreSQL beta", "PostgreSQL", ""}
        THEN call.out = [err |-> TRUE, v |-> ZeroVersion]
        ELSE call.out = [err |-> FALSE, v |-> ExpectedVersion(call.versionString)]

C32_Witness ==
    /\ call.fn = "parseVersion" /\ call.versionString = "PostgreSQL 11"
    /\ call.out = [err |-> FALSE, v |-> <<11, 0, 0>>]


C34_ScrapeFlags ==
    \A p \in Procs :
        /\ pc[p] = "getDB" => error = 0
        /\ pc[p] \in {"tail", "done"} =>
              /\ error \in {0, 1} /\ psqlUp \in {0, 1}
              /\ error = 1 <=> \/ db[p] = 0
                               \/ versionErr[p]
                               \/ settingsErr[p]
                               \/ namespaceErrors[p] # {}
              /\ psqlUp = 1 <=> db[p] # 0

\* A second scrape has ended with settings retrieval as its only failure.
C34_Witness ==
    \E p \in Procs :
        /\ pc[p] = "tail" /\ totalScrapes = 2
        /\ db[p] # 0 /\ ~versionErr[p] /\ settingsErr[p] /\ namespaceErrors[p] = {}
        /\ error = 1 /\ psqlUp = 1


\* The user document failed to load: the load-error gauge stands at 1.
LoadFailed == \E h \in DOMAIN userQueriesError : userQueriesError[h] = 1

C35_Inv ==
    \A p \in Procs :
        /\ pc[p] \in RebuildSteps \ {"lock"} =>
              mappingMtx.writer = p /\ mappingMtx.readers = {}
        /\ pc[p] \in {"userQueries", "unlock"} =>
              /\ lastMapVersion = semanticVersion[p]
              /\ ~metricMap.isNil /\ ~queryOverrides_.isNil
        /\ (pc[p] = "done" /\ LoadFailed) =>
              \E i \in 1..Len(ch[p]) :
                  ch[p][i].kind = "userQueriesError" /\ ch[p][i].value = F(100)

C35_Step ==
    \A p \in Procs :
        /\ pc[p] = "lock" => pc'[p] \in {"lock", "rebuildMap"}
        /\ pc[p] = "rebuildMap" => pc'[p] = "rebuildOverrides" /\ ~metricMap'.isNil
        /\ pc[p] = "rebuildOverrides" => pc'[p] = "setVersion" /\ ~queryOverrides_'.isNil
        /\ pc[p] = "setVersion" =>
              pc'[p] = "userQueries" /\ lastMapVersion' = semanticVersion[p]
        /\ pc[p] = "userQueries" =>
              /\ pc'[p] \in {"unlock", "panicked"}
              /\ lastMapVersion' = semanticVersion[p]
        /\ pc[p] # "userQueries" => userQueriesError' = userQueriesError
        /\ (pc[p] = "version" /\ pc'[p] # "version" /\ ~versionErr'[p]
               /\ semanticVersion'[p] = lastMapVersion /\ ~metricMap.isNil) =>
              pc'[p] = "emitVersion"

\* C35: a rebuild recompiles the maps, then sets lastMapVersion, then applies
\* the user document, all of it with the exclusive lock held.  A load that
\* fails leaves lastMapVersion at the resolved version, so a later scrape
\* that resolves the same version goes past the rebuild and does not load the
\* document again, and the load-error sample it sends stays at 1.
C35_RebuildOrder == []C35_Inv /\ [][C35_Step]_vars

\* A second scrape resolved the version of a rebuild whose load failed: it
\* did not rebuild and sent the load-error sample at 1.
C35_Witness ==
    \E p \in Procs :
        /\ pc[p] = "done" /\ totalScrapes = 2 /\ ~rebuilt[p]
        /\ db[p] # 0 /\ ~versionErr[p] /\ semanticVersion[p] = lastMapVersion
        /\ LoadFailed
        /\ \E i \in 1..Len(ch[p]) :
              ch[p][i].kind = "userQueriesError" /\ ch[p][i].value = F(100)


\* C36: every acquisition of mappingMtx is released on every path out of the
\* step that took it: a caller holds the exclusive lock only inside the
\* rebuild, the document malformed or not, and the shared lock only while it
\* runs the statements, so a scrape that starts when no other is running
\* finds the lock free.
C36_LockAlwaysReleased ==
    \A p \in Procs :
        /\ mappingMtx.writer = p => pc[p] \in RebuildSteps
        /\ p \in mappingMtx.readers => pc[p] \in QuerySteps


C37_Inv ==
    (disableDefaultMetrics /\ mappingMtx.writer = 0 /\ ~metricMap.isNil) =>
        LET loaded == IF userQueriesPath # ""
                         /\ \E d \in ValidDocs : d.hashsum \in DOMAIN userQueriesError
                      THEN (CHOOSE d \in ValidDocs : d.hashsum \in DOMAIN userQueriesError).extra
                      ELSE <<>>
        IN  /\ ~queryOverrides_.isNil
            /\ PairCompiledFrom(metricMap.m, queryOverrides_.m, lastMapVersion, loaded)
            /\ (userQueriesPath = "" \/ LoadFailed) =>
                  (DOMAIN metricMap.m = {} /\ DOMAIN queryOverrides_.m = {})
            /\ \A ns \in DOMAIN metricMap.m \cup DOMAIN queryOverrides_.m : ns \in DOMAIN loaded

C37_Step ==
    disableDefaultMetrics =>
        \A p \in Procs :
            /\ pc[p] = "rebuildOverrides" => ~metricMap.isNil
            /\ (pc[p] = "version" /\ pc'[p] # "version" /\ ~versionErr'[p]
                   /\ semanticVersion'[p] = lastMapVersion /\ ~metricMap.isNil) =>
                  (pc'[p] = "emitVersion" /\ UNCHANGED maps)

\* C37: with the built-in catalog disabled every rebuild leaves metricMap and
\* queryOverrides holding the namespaces and queries of the user document
\* and nothing else, both of them empty when no document is configured or
\* its load failed; the empty map exists, so a scrape that resolves the same
\* version does not rebuild.
C37_UserOnlyMaps == []C37_Inv /\ [][C37_Step]_vars

\* With the catalog disabled and a failed load, a second scrape of the same
\* version went past the rebuild with empty maps.
C37_Witness ==
    \E p \in Procs :
        /\ disableDefaultMetrics /\ userQueriesPath # "" /\ LoadFailed
        /\ pc[p] = "done" /\ totalScrapes = 2 /\ ~rebuilt[p]
        /\ db[p] # 0 /\ ~versionErr[p] /\ semanticVersion[p] = lastMapVersion
        /\ ~metricMap.isNil /\ DOMAIN metricMap.m = {} /\ DOMAIN queryOverrides_.m = {}


(***************************************************************************)
(* The configuration lookup, called directly.                              *)
(***************************************************************************)
\* C38: lookupConfig answers with the value of the flag when the flag was
\* set on the command line, otherwise with the value the configuration file
\* gives the key, and with the supplied default when neither the flag nor
\* the file sets the key.
C38_LookupPrecedence ==
    call.fn = "lookupConfig" =>
        LET section == SplitName(call.name).section
            key     == SplitName(call.name).key
        IN  call.out = IF call.name \in DOMAIN call.flags THEN call.flags[call.name]
                       ELSE IF section \in DOMAIN call.file /\ key \in DOMAIN call.file[section]
                            THEN call.file[section][key]
                            ELSE call.defaultValue

====
